---- MODULE Spec2Model ----
(***************************************************************************)
(* Odoo <-> Magento synchronization middleware.                            *)
(*                                                                         *)
(* The two remote systems are the environment: the ERP tables (products,   *)
(* partners, sale orders, countries), the storefront catalogue and orders, *)
(* the clock, and the outcome of every remote call.  The clients           *)
(* (OdooClient, MagentoClient) and the synchronizers (ProductSynchronizer, *)
(* OrderSynchronizer) are the program.  A client method is an operator     *)
(* from the client state to the SET of its possible outcomes, one per      *)
(* combination of outcomes of the remote calls it makes; every outcome is  *)
(* a record [st |-> client state afterwards, ret |-> returned value].      *)
(* `calls` is the history of the calls made by the last operation.         *)
(***************************************************************************)
EXTENDS Integers, Sequences, FiniteSets, TLC

VARIABLES
    products,       \* ERP table product.product (id = index)
    partners,       \* ERP table res.partner (id = index)
    sale_orders,    \* ERP table sale.order (id = index)
    connected,      \* OdooClient.connected
    odoo,           \* OdooClient.odoo (the session object or None)
    token,          \* MagentoClient.token
    token_expiry,   \* MagentoClient.token_expiry
    now,            \* time.time()
    mg_products,    \* skus that exist in the storefront
    mg_orders,      \* storefront orders
    calls,          \* history: calls made by the last operation
    result,         \* the last operation, its arguments and its return value
    batch,          \* the batch (sync_all_products / sync_new_orders) in progress
    threads         \* _get_token invocations in flight on one shared MagentoClient

vars == <<products, partners, sale_orders, connected, odoo, token, token_expiry,
          now, mg_products, mg_orders, calls, result, batch, threads>>

----------------------------------------------------------------------------
(* Bounds of the model *)

MaxProducts == 2
MaxPartners == 3
MaxSaleOrders == 1
MaxOrders == 2
MaxLines == 2
MaxTicks == 1
MaxSyncs == 3

----------------------------------------------------------------------------
(* Values *)

\* Python's None where a string is expected (and Odoo's False for an unset
\* char field): a value that is no sku, e-mail, token or country code.
NoneStr == "<None>"

\* Python truthiness of a string-or-None value: `if not sku`
Truthy(s) == s # NoneStr /\ s # ""

\* Optional non-string values are sequences of length 0 (None) or 1.
None == <<>>
Some(x) == <<x>>

Skus == {"s1", "s2"}

\* ERP products the catalogue is drawn from: duplicate skus, an unset and an
\* empty sku, promo below / equal to / above the retail price, a promo of 0
\* and no lst_price attribute at all.
ProductPool ==
    { [default_code |-> "s1",    list_price |-> 10, lst_price |-> Some(8),  qty_available |-> 5],
      [default_code |-> "s1",    list_price |-> 10, lst_price |-> Some(12), qty_available |-> 0],
      [default_code |-> "s2",    list_price |-> 10, lst_price |-> Some(10), qty_available |-> 5],
      [default_code |-> "s2",    list_price |-> 10, lst_price |-> None,     qty_available |-> 3],
      [default_code |-> "s2",    list_price |-> 10, lst_price |-> Some(0),  qty_available |-> 5],
      [default_code |-> NoneStr, list_price |-> 10, lst_price |-> Some(8),  qty_available |-> 5],
      [default_code |-> "",      list_price |-> 10, lst_price |-> Some(12), qty_available |-> 0] }

\* ERP table res.country (id = index); codes are unique and upper case
countries == <<"US", "DE">>

\* order lines handed to create_sale_order; no ERP product has sku "zz"
LinePool ==
    { [sku |-> "s1", quantity |-> 2, price_unit |-> 10],
      [sku |-> "s2", quantity |-> 1, price_unit |-> 5],
      [sku |-> "zz", quantity |-> 3, price_unit |-> 7] }

OrderIds == {"o1", "o2"}

\* storefront orders: one whose lines partly resolve, one whose lines never
\* resolve, one without entity_id, one that is not new
OrderPool ==
    { [entity_id |-> "o1", status |-> "pending", customer_email |-> "a@x",
       billing_address |-> [firstname |-> <<"A">>, lastname |-> <<"B">>, country_id |-> "us"],
       items |-> << [sku |-> "s1", qty_ordered |-> 2, price |-> 10],
                    [sku |-> "zz", qty_ordered |-> 1, price |-> 5] >>],
      [entity_id |-> "o2", status |-> "processing", customer_email |-> "b@x",
       billing_address |-> [firstname |-> <<>>, lastname |-> <<"B">>, country_id |-> "xx"],
       items |-> << [sku |-> "zz", qty_ordered |-> 1, price |-> 5] >>],
      [entity_id |-> "", status |-> "pending", customer_email |-> "a@x",
       billing_address |-> [firstname |-> <<"A">>, lastname |-> <<>>, country_id |-> ""],
       items |-> << [sku |-> "s1", qty_ordered |-> 1, price |-> 10] >>],
      [entity_id |-> "o2", status |-> "complete", customer_email |-> "b@x",
       billing_address |-> [firstname |-> <<"A">>, lastname |-> <<"B">>, country_id |-> "de"],
       items |-> << [sku |-> "s1", qty_ordered |-> 1, price |-> 10] >>] }

\* all sequences over S of length at most n
SeqUpTo(S, n) == UNION { [1..k -> S] : k \in 0..n }

\* ids (indices) of the rows of a table that are among `hits`, ascending: the
\* result of an ERP search
RECURSIVE SearchFrom(_, _, _)
SearchFrom(table, hits, i) ==
    IF i > Len(table) THEN <<>>
    ELSE IF table[i] \in hits THEN <<i>> \o SearchFrom(table, hits, i + 1)
         ELSE SearchFrom(table, hits, i + 1)

\* the rows of a table
Rows(table) == { table[i] : i \in 1..Len(table) }

\* search(domain), `hits` being the rows the domain selects
Search(table, hits) == SearchFrom(table, hits, 1)

----------------------------------------------------------------------------
(* The history of calls *)

\* a request that left the process towards a remote system
Remote(sys, op, target, arg, ok) ==
    [layer |-> "remote", sys |-> sys, op |-> op, target |-> target, arg |-> arg, ok |-> ok]

\* a client method that was called and has returned; ok is the truthiness of
\* the value it returned
Client(sys, op, arg, ok) ==
    [layer |-> "client", sys |-> sys, op |-> op, target |-> "", arg |-> arg, ok |-> ok]

Log(st, e) == [st EXCEPT !.calls = Append(@, e)]

Out(st, ret) == [st |-> st, ret |-> ret]

\* the client state as a record, and its write-back
Cur ==
    [connected |-> connected, odoo |-> odoo, token |-> token,
     token_expiry |-> token_expiry, partners |-> partners,
     sale_orders |-> sale_orders, calls |-> <<>>]

CommitState(st) ==
    /\ connected' = st.connected
    /\ odoo' = st.odoo
    /\ token' = st.token
    /\ token_expiry' = st.token_expiry
    /\ partners' = st.partners
    /\ sale_orders' = st.sale_orders

\* a single operation: its calls are the history
Commit(st) == CommitState(st) /\ calls' = st.calls

\* a step of a batch: the batch keeps the trace of its items instead
CommitStep(st) == CommitState(st) /\ calls' = <<>>

----------------------------------------------------------------------------
(* OdooClient *)

Session == "ODOO"

\* connect(): the ODOO() constructor raises (self.odoo untouched), or login
\* raises (self.odoo is the new object), or both succeed
connect(st) ==
    { Out(Log([st EXCEPT !.connected = FALSE],
              Remote("odoo", "connect", "server", "", FALSE)), FALSE),
      Out(Log([st EXCEPT !.odoo = Session, !.connected = FALSE],
              Remote("odoo", "login", "server", "", FALSE)), FALSE),
      Out(Log([st EXCEPT !.odoo = Session, !.connected = TRUE],
              Remote("odoo", "login", "server", "", TRUE)), TRUE) }

\* mutant: a connection is made before every operation
ensure_connection_always(st) == connect(st)

ensure_connection(st) ==
    IF ~st.connected \/ st.odoo = NoneStr
    THEN connect(st)
    ELSE { Out(st, TRUE) }

\* the dictionary get_product_by_sku / get_all_products build from a row
product_dict(id) ==
    [id |-> id,
     sku |-> products[id].default_code,
     retail_price |-> products[id].list_price,
     promo_price |-> products[id].lst_price,
     quantity |-> products[id].qty_available]

\* search([('default_code', '=', sku)])
search_product(sku) == Search(products, { r \in Rows(products) : r.default_code = sku })

\* a client method returns: its outcomes, each with the returned call logged
\* (`nothing` is what the method returns when it fails)
Returned(outs, sys, op, arg, nothing) ==
    { Out(Log(o.st, Client(sys, op, arg, o.ret # nothing)), o.ret) : o \in outs }

odoo_get_product_by_sku(st, sku) ==
    Returned(UNION {
        IF ~c.ret THEN { Out(c.st, None) }
        ELSE LET ids == search_product(sku)
                 found == Log(c.st, Remote("odoo", "search", "product.product", sku, TRUE))
             IN  { Out(Log(c.st, Remote("odoo", "search", "product.product", sku, FALSE)), None) }
                 \cup
                 ( IF ids = <<>>
                   THEN { Out(found, None) }
                   ELSE { Out(Log(found, Remote("odoo", "browse", "product.product", sku, FALSE)), None),
                          Out(Log(found, Remote("odoo", "browse", "product.product", sku, TRUE)),
                              Some(product_dict(ids[1]))) } )
        : c \in ensure_connection(st) },
      "odoo", "get_product_by_sku", sku, None)

\* get_all_products(): every row of product.product, as dictionaries; an
\* empty list when the connection, the search or the browse fails
get_all_products(st) ==
    Returned(UNION {
        IF ~c.ret THEN { Out(c.st, <<>>) }
        ELSE LET found == Log(c.st, Remote("odoo", "search", "product.product", "", TRUE))
             IN  { Out(Log(c.st, Remote("odoo", "search", "product.product", "", FALSE)), <<>>),
                   Out(Log(found, Remote("odoo", "browse", "product.product", "", FALSE)), <<>>),
                   Out(Log(found, Remote("odoo", "browse", "product.product", "", TRUE)),
                       [i \in 1..Len(products) |-> product_dict(i)]) }
        : c \in ensure_connection(st) },
      "odoo", "get_all_products", "", <<>>)

\* mutant: the code is searched as given
upper_identity(s) == s

\* str.upper() on the country codes of the model
upper(s) ==
    CASE s = "us" -> "US"
      [] s = "de" -> "DE"
      [] s = "xx" -> "XX"
      [] OTHER -> s

CountryCodes == {"US", "us", "xx", "", NoneStr}

\* _get_country_id(country_code): None.upper() raises inside the try
get_country_id(st, country_code) ==
    UNION {
        IF ~c.ret THEN { Out(c.st, None) }
        ELSE IF country_code = NoneStr THEN { Out(c.st, None) }
        ELSE LET code == upper(country_code)
                 ids == Search(countries, { r \in Rows(countries) : r = code })
             IN  { Out(Log(c.st, Remote("odoo", "search", "res.country", code, FALSE)), None),
                   Out(Log(c.st, Remote("odoo", "search", "res.country", code, TRUE)),
                       IF ids # <<>> THEN Some(ids[1]) ELSE None) }
        : c \in ensure_connection(st) }

\* search([('email', '=', email)]) on res.partner
search_partner(table, email) == Search(table, { r \in Rows(table) : r.email = email })

\* create_sale_order, lines 144-161: the partner of the order, looked up by
\* e-mail or created.  ret is None when a remote call raised.
partner_for(st, customer_data) ==
    LET partner_ids == search_partner(st.partners, customer_data.email)
        searched == Log(st, Remote("odoo", "search", "res.partner", customer_data.email, TRUE))
    IN  { Out(Log(st, Remote("odoo", "search", "res.partner", customer_data.email, FALSE)), None) }
        \cup
        ( IF partner_ids # <<>>
          THEN { Out(searched, Some(partner_ids[1])) }
          ELSE UNION {
              { Out(Log(k.st, Remote("odoo", "create", "res.partner", customer_data.email, FALSE)),
                    None),
                Out(Log([k.st EXCEPT !.partners =
                            Append(@, [name |-> customer_data.name,
                                       email |-> customer_data.email,
                                       country_id |-> k.ret])],
                        Remote("odoo", "create", "res.partner", customer_data.email, TRUE)),
                    Some(Len(k.st.partners) + 1)) }
              : k \in get_country_id(searched, customer_data.country_code) } )

\* mutant: the quantity of the item is not carried over
sale_order_line_unit_qty(product_id, line) ==
    [product_id |-> product_id,
     product_uom_qty |-> 1,
     price_unit |-> line.price_unit]

\* the tuple (0, 0, {...}) appended for a line whose sku resolves
sale_order_line(product_id, line) ==
    [product_id |-> product_id,
     product_uom_qty |-> line.quantity,
     price_unit |-> line.price_unit]

\* create_sale_order, lines 164-178: the loop over order_lines, with
\* sale_order_lines collected so far.  ret is None when a search raised.
RECURSIVE resolve_lines(_, _, _)
resolve_lines(st, order_lines, sale_order_lines) ==
    IF order_lines = <<>> THEN { Out(st, Some(sale_order_lines)) }
    ELSE LET line == Head(order_lines)
             product_ids == search_product(line.sku)
         IN  { Out(Log(st, Remote("odoo", "search", "product.product", line.sku, FALSE)), None) }
             \cup
             resolve_lines(Log(st, Remote("odoo", "search", "product.product", line.sku, TRUE)),
                           Tail(order_lines),
                           IF product_ids = <<>> THEN sale_order_lines
                           ELSE Append(sale_order_lines, sale_order_line(product_ids[1], line)))

\* `if not sale_order_lines`
no_valid_lines(sale_order_lines) == sale_order_lines = <<>>

\* mutant: an order with this external reference is looked up first and,
\* if the ERP holds one, its id is returned and nothing is created
create_order_if_absent(st, partner_id, external_order_id, sale_order_lines) ==
    LET ids == Search(st.sale_orders,
                      { r \in Rows(st.sale_orders) : r.client_order_ref = external_order_id })
    IN  IF ids # <<>>
        THEN { Out(Log(st, Remote("odoo", "search", "sale.order", external_order_id, TRUE)),
                   Some(ids[1])) }
        ELSE { Out(Log(st, Remote("odoo", "create", "sale.order", external_order_id, FALSE)),
                   None),
               Out(Log([st EXCEPT !.sale_orders =
                           Append(@, [partner_id |-> partner_id,
                                      client_order_ref |-> external_order_id,
                                      order_line |-> sale_order_lines])],
                       Remote("odoo", "create", "sale.order", external_order_id, TRUE)),
                   Some(Len(st.sale_orders) + 1)) }

\* create_sale_order, lines 184-193: the remote create, which raises or adds
\* the order
create_order(st, partner_id, external_order_id, sale_order_lines) ==
    { Out(Log(st, Remote("odoo", "create", "sale.order", external_order_id, FALSE)), None),
      Out(Log([st EXCEPT !.sale_orders =
                  Append(@, [partner_id |-> partner_id,
                             client_order_ref |-> external_order_id,
                             order_line |-> sale_order_lines])],
              Remote("odoo", "create", "sale.order", external_order_id, TRUE)),
          Some(Len(st.sale_orders) + 1)) }

create_sale_order(st, customer_data, order_lines, external_order_id) ==
    Returned(UNION {
        IF ~c.ret THEN { Out(c.st, None) }
        ELSE UNION {
            IF p.ret = None THEN { Out(p.st, None) }
            ELSE UNION {
                IF r.ret = None THEN { Out(r.st, None) }
                ELSE IF no_valid_lines(r.ret[1]) THEN { Out(r.st, None) }
                ELSE create_order(r.st, p.ret[1], external_order_id, r.ret[1])
                : r \in resolve_lines(p.st, order_lines, <<>>) }
            : p \in partner_for(c.st, customer_data) }
        : c \in ensure_connection(st) },
      "odoo", "create_sale_order", external_order_id, None)

----------------------------------------------------------------------------
(* MagentoClient *)

token_lifetime == 3600

TheToken == "token"

\* mutant: the token is still handed out at the instant it expires
get_token_at_expiry(st) ==
    IF st.token # NoneStr /\ now <= st.token_expiry
    THEN { Out(st, st.token) }
    ELSE { Out(Log([st EXCEPT !.token = TheToken, !.token_expiry = now + token_lifetime],
                   Remote("magento", "POST", "token", "", TRUE)), TheToken),
           Out(Log([st EXCEPT !.token = NoneStr],
                   Remote("magento", "POST", "token", "", FALSE)), NoneStr) }

\* _get_token(): the cached token while it is valid, else a credential
\* exchange, which succeeds or fails
get_token(st) ==
    IF st.token # NoneStr /\ now < st.token_expiry
    THEN { Out(st, st.token) }
    ELSE { Out(Log([st EXCEPT !.token = TheToken, !.token_expiry = now + token_lifetime],
                   Remote("magento", "POST", "token", "", TRUE)), TheToken),
           Out(Log([st EXCEPT !.token = NoneStr],
                   Remote("magento", "POST", "token", "", FALSE)), NoneStr) }

\* values _make_api_request returns: None, True (2xx, empty body), parsed JSON
ApiNone == [kind |-> "none", json |-> None]
ApiTrue == [kind |-> "true", json |-> None]
ApiJson(body) == [kind |-> "json", json |-> Some(body)]

\* `if not x` / `x is not None` for such a value (every body here is a
\* non-empty object)
ApiTruthy(r) == r.kind # "none"

\* _make_api_request(method, endpoint): `bodies` are the JSON bodies the
\* server can answer with a 2xx; with none, it answers with an error only.
make_api_request(st, method, target, arg, bodies) ==
    UNION {
        IF t.ret = NoneStr THEN { Out(t.st, ApiNone) }
        ELSE { Out(Log(t.st, Remote("magento", method, target, arg, FALSE)), ApiNone) }
             \cup
             ( IF bodies = {} THEN {}
               ELSE { Out(Log(t.st, Remote("magento", method, target, arg, TRUE)), ApiTrue) }
                    \cup
                    { Out(Log(t.st, Remote("magento", method, target, arg, TRUE)), ApiJson(b))
                      : b \in bodies } )
        : t \in get_token(st) }

\* what the storefront answers for /rest/V1/products/{sku}
product_bodies(sku) == IF sku \in mg_products THEN { [sku |-> sku] } ELSE {}

mg_get_product_by_sku(st, sku) ==
    { Out(Log(o.st, Client("magento", "get_product_by_sku", sku, ApiTruthy(o.ret))), o.ret)
      : o \in make_api_request(st, "GET", "product", sku, product_bodies(sku)) }

update_product_stock(st, sku, quantity) ==
    { Out(Log(o.st, Client("magento", "update_product_stock", sku, o.ret.kind # "none")),
          o.ret.kind # "none")
      : o \in make_api_request(st, "PUT", "stock", sku, product_bodies(sku)) }

update_product_price(st, sku, price) ==
    { Out(Log(o.st, Client("magento", "update_product_price", sku, o.ret.kind # "none")),
          o.ret.kind # "none")
      : o \in make_api_request(st, "PUT", "price", sku, product_bodies(sku)) }

update_product_special_price(st, sku, special_price) ==
    { Out(Log(o.st, Client("magento", "update_product_special_price", sku, o.ret.kind # "none")),
          o.ret.kind # "none")
      : o \in make_api_request(st, "PUT", "special_price", sku, product_bodies(sku)) }

default_page_size == 10

\* the first n elements of a sequence: one page of a listing
FirstN(seq, n) == IF n < Len(seq) THEN SubSeq(seq, 1, n) ELSE seq

\* what the storefront answers for /rest/V1/orders with a status filter:
\* the first page of the orders in that status
orders_bodies(page_size, status) ==
    { [items |-> FirstN(SelectSeq(mg_orders, LAMBDA o : o.status = status), page_size)] }

get_orders(st, page_size, status) ==
    make_api_request(st, "GET", "orders", status, orders_bodies(page_size, status))

\* what the storefront answers for /rest/V1/orders/{id}
order_bodies(order_id) ==
    LET found == SelectSeq(mg_orders, LAMBDA o : o.entity_id = order_id)
    IN  IF found = <<>> THEN {} ELSE { found[1] }

get_order_by_id(st, order_id) ==
    Returned(make_api_request(st, "GET", "order", order_id, order_bodies(order_id)),
             "magento", "get_order_by_id", order_id, ApiNone)

\* `if x and 'items' in x: orders.extend(x['items'])`
items_of(r) == IF r.kind = "json" THEN r.json[1].items ELSE <<>>

\* get_new_orders, lines 252-260, from the two answers: `'items' in True`
\* raises TypeError, which get_new_orders does not catch
new_orders(pending_orders, processing_orders) ==
    IF pending_orders.kind = "true" \/ processing_orders.kind = "true"
    THEN [raised |-> TRUE, orders |-> <<>>]
    ELSE [raised |-> FALSE, orders |-> items_of(pending_orders) \o items_of(processing_orders)]

get_new_orders(st) ==
    UNION { { Out(q.st, new_orders(p.ret, q.ret))
              : q \in get_orders(p.st, default_page_size, "processing") }
            : p \in get_orders(st, default_page_size, "pending") }

----------------------------------------------------------------------------
(* ProductSynchronizer *)

\* the message of a result: its fixed text and the operations it names
Message(text, failed) == [text |-> text, failed |-> failed]

ProductResult(success, message, sku) ==
    [success |-> success, message |-> message, sku |-> sku]

\* mutant: the promo price is pushed when it is not above the retail price
special_price_applies_le(p) ==
    /\ p.promo_price # None
    /\ p.promo_price[1] # 0
    /\ p.promo_price[1] <= p.retail_price

\* `if odoo_product["promo_price"] and promo_price < retail_price`
special_price_applies(p) ==
    /\ p.promo_price # None
    /\ p.promo_price[1] # 0
    /\ p.promo_price[1] < p.retail_price

\* mutant: an elif chain, only the first failed operation is named
failed_operations_first(stock_result, price_result, special_price_result) ==
    IF ~stock_result THEN <<"stock update">>
    ELSE IF ~price_result THEN <<"price update">>
    ELSE <<"special price update">>

failed_operations(stock_result, price_result, special_price_result) ==
    (IF ~stock_result THEN <<"stock update">> ELSE <<>>)
    \o (IF ~price_result THEN <<"price update">> ELSE <<>>)
    \o (IF ~special_price_result THEN <<"special price update">> ELSE <<>>)

\* what sync_product returns once the updates were made
sync_product_return(sku, stock_result, price_result, special_price_result) ==
    IF stock_result /\ price_result /\ special_price_result
    THEN ProductResult(TRUE, Message("synchronized successfully", <<>>), sku)
    ELSE ProductResult(FALSE,
             Message("synchronization failed for",
                     failed_operations(stock_result, price_result, special_price_result)),
             sku)

\* mutant: the updates stop at the first one that fails
push_updates_until_failure(st, sku, p) ==
    UNION {
        IF ~s1.ret THEN { Out(s1.st, sync_product_return(sku, FALSE, TRUE, TRUE)) }
        ELSE UNION {
            IF ~s2.ret \/ ~special_price_applies(p)
            THEN { Out(s2.st, sync_product_return(sku, s1.ret, s2.ret, TRUE)) }
            ELSE { Out(s3.st, sync_product_return(sku, s1.ret, s2.ret, s3.ret))
                   : s3 \in update_product_special_price(s2.st, sku, p.promo_price[1]) }
            : s2 \in update_product_price(s1.st, sku, p.retail_price) }
        : s1 \in update_product_stock(st, sku, p.quantity) }

\* the three updates of sync_product, for ERP product p
push_updates(st, sku, p) ==
    UNION { UNION {
        IF special_price_applies(p)
        THEN { Out(s3.st, sync_product_return(sku, s1.ret, s2.ret, s3.ret))
               : s3 \in update_product_special_price(s2.st, sku, p.promo_price[1]) }
        ELSE { Out(s2.st, sync_product_return(sku, s1.ret, s2.ret, TRUE)) }
        : s2 \in update_product_price(s1.st, sku, p.retail_price) }
        : s1 \in update_product_stock(st, sku, p.quantity) }

\* mutant: both lookups are made before either result is looked at
sync_product_lookups_first(st, sku) ==
    UNION { UNION {
        IF o.ret = None
        THEN { Out(m.st, ProductResult(FALSE, Message("not found in Odoo", <<>>), sku)) }
        ELSE IF ~ApiTruthy(m.ret)
        THEN { Out(m.st, ProductResult(FALSE, Message("not found in Magento", <<>>), sku)) }
        ELSE push_updates(m.st, sku, o.ret[1])
        : m \in mg_get_product_by_sku(o.st, sku) }
        : o \in odoo_get_product_by_sku(st, sku) }

\* mutant: the storefront lookup is made but its result is not checked
sync_product_unchecked(st, sku) ==
    UNION {
        IF o.ret = None
        THEN { Out(o.st, ProductResult(FALSE, Message("not found in Odoo", <<>>), sku)) }
        ELSE UNION { push_updates(m.st, sku, o.ret[1])
                     : m \in mg_get_product_by_sku(o.st, sku) }
        : o \in odoo_get_product_by_sku(st, sku) }

sync_product(st, sku) ==
    UNION {
        IF o.ret = None
        THEN { Out(o.st, ProductResult(FALSE, Message("not found in Odoo", <<>>), sku)) }
        ELSE UNION {
            IF ~ApiTruthy(m.ret)
            THEN { Out(m.st, ProductResult(FALSE, Message("not found in Magento", <<>>), sku)) }
            ELSE push_updates(m.st, sku, o.ret[1])
            : m \in mg_get_product_by_sku(o.st, sku) }
        : o \in odoo_get_product_by_sku(st, sku) }

\* mutant: the batch stops at the first product that fails
product_tally_abort(b, sku, success) ==
    [b EXCEPT !.i = IF success THEN @ + 1 ELSE Len(b.items) + 1,
              !.trace = Append(@, [arg |-> sku, success |-> success]),
              !.results.successful = IF success THEN @ + 1 ELSE @,
              !.results.failed = IF success THEN @ ELSE @ + 1,
              !.results.failed_skus = IF success THEN @ ELSE Append(@, sku)]

\* mutant: a product without sku is skipped without being counted
product_skip_uncounted(b) == [b EXCEPT !.i = @ + 1]

\* sync_all_products, lines 120-123: a product without sku
product_skip(b) == [b EXCEPT !.i = @ + 1, !.results.failed = @ + 1]

\* sync_all_products, lines 125-130: the tally after sync_product(sku)
product_tally(b, sku, success) ==
    [b EXCEPT !.i = @ + 1,
              !.trace = Append(@, [arg |-> sku, success |-> success]),
              !.results.successful = IF success THEN @ + 1 ELSE @,
              !.results.failed = IF success THEN @ ELSE @ + 1,
              !.results.failed_skus = IF success THEN @ ELSE Append(@, sku)]

\* sync_all_products, lines 109-116: the loop is entered with the listing
product_batch(odoo_products) ==
    [pc |-> "products",
     items |-> [i \in 1..Len(odoo_products) |-> odoo_products[i].sku],
     i |-> 1,
     trace |-> <<>>,
     results |-> [total |-> Len(odoo_products), successful |-> 0, failed |-> 0,
                  failed_skus |-> <<>>]]

----------------------------------------------------------------------------
(* OrderSynchronizer *)

\* str.strip() of a sequence of characters
RECURSIVE lstrip(_)
lstrip(cs) == IF cs # <<>> /\ Head(cs) = " " THEN lstrip(Tail(cs)) ELSE cs

RECURSIVE rstrip(_)
rstrip(cs) ==
    IF cs # <<>> /\ cs[Len(cs)] = " " THEN rstrip(SubSeq(cs, 1, Len(cs) - 1)) ELSE cs

strip(cs) == rstrip(lstrip(cs))

\* mutant: the name is put together and not trimmed
customer_data_of_untrimmed(magento_order) ==
    [name |-> magento_order.billing_address.firstname \o <<" ">>
              \o magento_order.billing_address.lastname,
     email |-> magento_order.customer_email,
     country_code |-> magento_order.billing_address.country_id]

\* sync_order, lines 185-194
customer_data_of(magento_order) ==
    [name |-> strip(magento_order.billing_address.firstname \o <<" ">>
                    \o magento_order.billing_address.lastname),
     email |-> magento_order.customer_email,
     country_code |-> magento_order.billing_address.country_id]

\* sync_order, lines 197-203
order_lines_of(magento_order) ==
    [i \in 1..Len(magento_order.items) |->
        [sku |-> magento_order.items[i].sku,
         quantity |-> magento_order.items[i].qty_ordered,
         price_unit |-> magento_order.items[i].price]]

OrderResult(success, text, odoo_order_id, orders_synced) ==
    [success |-> success,
     message |-> [text |-> text, odoo_order_id |-> odoo_order_id],
     orders_synced |-> orders_synced]

\* mutant: the order is reported as brought in whatever create_sale_order
\* returned
sync_order_unchecked(st, magento_order_id) ==
    UNION {
        IF ~ApiTruthy(g.ret)
        THEN { Out(g.st, OrderResult(FALSE, "not found in Magento", None, <<>>)) }
        ELSE IF g.ret.kind = "true"
        THEN { Out(g.st, OrderResult(FALSE, "Error synchronizing order", None, <<>>)) }
        ELSE { Out(c.st,
                   OrderResult(TRUE, "synchronized successfully to Odoo order", c.ret,
                               <<magento_order_id>>))
               : c \in create_sale_order(g.st, customer_data_of(g.ret.json[1]),
                                         order_lines_of(g.ret.json[1]), magento_order_id) }
        : g \in get_order_by_id(st, magento_order_id) }

\* sync_order: a 2xx answer without body is True, and True.get raises
\* AttributeError, caught at line 224
sync_order(st, magento_order_id) ==
    UNION {
        IF ~ApiTruthy(g.ret)
        THEN { Out(g.st, OrderResult(FALSE, "not found in Magento", None, <<>>)) }
        ELSE IF g.ret.kind = "true"
        THEN { Out(g.st, OrderResult(FALSE, "Error synchronizing order", None, <<>>)) }
        ELSE { Out(c.st,
                   IF c.ret # None
                   THEN OrderResult(TRUE, "synchronized successfully to Odoo order", c.ret,
                                    <<magento_order_id>>)
                   ELSE OrderResult(FALSE, "Failed to create Odoo order", None, <<>>))
               : c \in create_sale_order(g.st, customer_data_of(g.ret.json[1]),
                                         order_lines_of(g.ret.json[1]), magento_order_id) }
        : g \in get_order_by_id(st, magento_order_id) }

\* sync_new_orders, lines 253-256: an order without entity_id
order_skip(b) == [b EXCEPT !.i = @ + 1, !.results.failed = @ + 1]

\* mutant: an order that failed is counted but not listed
order_tally_failed_unlisted(b, order_id, success) ==
    [b EXCEPT !.i = @ + 1,
              !.trace = Append(@, [arg |-> order_id, success |-> success]),
              !.results.successful = IF success THEN @ + 1 ELSE @,
              !.results.failed = IF success THEN @ ELSE @ + 1,
              !.results.synced_orders = IF success THEN Append(@, order_id) ELSE @]

\* sync_new_orders, lines 258-264: the tally after sync_order(order_id)
order_tally(b, order_id, success) ==
    [b EXCEPT !.i = @ + 1,
              !.trace = Append(@, [arg |-> order_id, success |-> success]),
              !.results.successful = IF success THEN @ + 1 ELSE @,
              !.results.failed = IF success THEN @ ELSE @ + 1,
              !.results.synced_orders = IF success THEN Append(@, order_id) ELSE @,
              !.results.failed_orders = IF success THEN @ ELSE Append(@, order_id)]

\* sync_new_orders, lines 241-249: the loop is entered with the listing
order_batch(new_orders_list) ==
    [pc |-> "orders",
     items |-> [i \in 1..Len(new_orders_list) |-> new_orders_list[i].entity_id],
     i |-> 1,
     trace |-> <<>>,
     results |-> [total |-> Len(new_orders_list), successful |-> 0, failed |-> 0,
                  failed_orders |-> <<>>, synced_orders |-> <<>>]]

----------------------------------------------------------------------------
(* Actions *)

Idle == batch.pc = "idle"

\* the invocations that may run _get_token on one client at the same time
Threads == {"t1", "t2"}

\* the locals of an invocation of _get_token that has not begun
NotCalled == [pc |-> "idle", current_time |-> 0, response |-> NoneStr, ret |-> NoneStr]

\* time passes
Ticks == { token_lifetime \div 2, token_lifetime }

MaxTime == MaxTicks * token_lifetime

Tick ==
    /\ \E d \in Ticks :
        /\ now + d <= MaxTime
        /\ now' = now + d
    /\ UNCHANGED <<threads, products, partners, sale_orders, connected, odoo, token,
                   token_expiry, mg_products, mg_orders, calls, result, batch>>

\* POST /sync/product
SyncProduct ==
    /\ Idle
    /\ \E sku \in Skus : \E o \in sync_product(Cur, sku) :
        /\ Commit(o.st)
        /\ result' = [op |-> "sync_product", arg |-> sku, ret |-> o.ret]
    /\ UNCHANGED <<threads, products, now, mg_products, mg_orders, batch>>

InitClients ==
    /\ connected = FALSE
    /\ odoo = NoneStr
    /\ token = NoneStr
    /\ token_expiry = 0
    /\ now = 0
    /\ calls = <<>>
    /\ result = [op |-> "none"]
    /\ batch = [pc |-> "idle"]
    /\ threads = [t \in Threads |-> NotCalled]

InitProduct ==
    /\ InitClients
    /\ products \in SeqUpTo(ProductPool, MaxProducts)
    /\ mg_products \in SUBSET Skus
    /\ partners = <<>>
    /\ sale_orders = <<>>
    /\ mg_orders = <<>>

NextProduct == SyncProduct \/ Tick

SpecProduct == InitProduct /\ [][NextProduct]_vars

\* the clients were made for this request and no operation was called yet
\* (get_odoo_client and get_magento_client make new clients per request)
Fresh == result.op \in {"none", "connect"}

\* OdooClient.connect(), as the routes and the examples call it
Connect ==
    /\ Idle
    /\ Fresh
    /\ \E o \in connect(Cur) :
        /\ Commit(o.st)
        /\ result' = [op |-> "connect", arg |-> "", ret |-> o.ret]
    /\ UNCHANGED <<threads, products, now, mg_products, mg_orders, batch>>

Customers ==
    [name : {<<"A", " ", "B">>}, email : {"a@x", "b@x"}, country_code : CountryCodes]

\* OdooClient.create_sale_order(customer_data, order_lines, external_order_id);
\* `before` keeps the tables as they were when it was called
CreateSaleOrder ==
    /\ Idle
    /\ Fresh
    /\ \E cd \in Customers, lines \in SeqUpTo(LinePool, MaxLines), ext \in OrderIds :
        \E o \in create_sale_order(Cur, cd, lines, ext) :
            /\ Commit(o.st)
            /\ result' = [op |-> "create_sale_order", arg |-> ext, customer_data |-> cd,
                          order_lines |-> lines, ret |-> o.ret,
                          before |-> [partners |-> partners, sale_orders |-> sale_orders]]
    /\ UNCHANGED <<threads, products, now, mg_products, mg_orders, batch>>

\* the ERP products the sale orders are made of: rows of this table
BaseProducts ==
    << [default_code |-> "s2", list_price |-> 10, lst_price |-> None,     qty_available |-> 3],
       [default_code |-> "s1", list_price |-> 10, lst_price |-> Some(8),  qty_available |-> 5],
       [default_code |-> "s1", list_price |-> 10, lst_price |-> Some(12), qty_available |-> 0] >>

\* the first n rows of a table
Prefixes(table, n) == { FirstN(table, k) : k \in 0..n }

\* the partners the ERP holds when a request arrives: rows of this table
BasePartners ==
    << [name |-> <<"C">>, email |-> "c@x", country_id |-> None],
       [name |-> <<"A">>, email |-> "a@x", country_id |-> None],
       [name |-> <<"Z">>, email |-> "a@x", country_id |-> Some(1)] >>

\* the sale orders the ERP holds when a request arrives: rows of this table
BaseSaleOrders ==
    << [partner_id |-> 1, client_order_ref |-> "o1",
        order_line |-> << [product_id |-> 1, product_uom_qty |-> 1, price_unit |-> 10] >>],
       [partner_id |-> 1, client_order_ref |-> "o0",
        order_line |-> << [product_id |-> 1, product_uom_qty |-> 2, price_unit |-> 10] >>] >>

InitSaleOrder ==
    /\ InitClients
    /\ products \in Prefixes(BaseProducts, MaxProducts)
    /\ partners \in Prefixes(BasePartners, MaxPartners)
    /\ sale_orders \in Prefixes(BaseSaleOrders, MaxSaleOrders)
    /\ mg_products = {}
    /\ mg_orders = <<>>

NextSaleOrder == CreateSaleOrder \/ Connect

SpecSaleOrder == InitSaleOrder /\ [][NextSaleOrder]_vars

\* POST /sync/order with an order id; `before` keeps the tables as they
\* were when it was called
SyncOrder ==
    /\ Idle
    /\ Fresh
    /\ \E id \in OrderIds : \E o \in sync_order(Cur, id) :
        /\ Commit(o.st)
        /\ result' = [op |-> "sync_order", arg |-> id, ret |-> o.ret,
                      before |-> [partners |-> partners, sale_orders |-> sale_orders]]
    /\ UNCHANGED <<threads, products, now, mg_products, mg_orders, batch>>

\* storefront orders whose billing address lacks a part of the name or
\* carries blanks around it
BillingVariants ==
    { [entity_id |-> "o1", status |-> "pending", customer_email |-> "b@x",
       billing_address |-> [firstname |-> <<"A">>, lastname |-> <<>>, country_id |-> "us"],
       items |-> << [sku |-> "s1", qty_ordered |-> 1, price |-> 10] >>],
      [entity_id |-> "o2", status |-> "pending", customer_email |-> "b@x",
       billing_address |-> [firstname |-> <<" ", "A">>, lastname |-> <<"B", " ">>,
                            country_id |-> "us"],
       items |-> << [sku |-> "s1", qty_ordered |-> 1, price |-> 10] >>],
      [entity_id |-> "o1", status |-> "processing", customer_email |-> "b@x",
       billing_address |-> [firstname |-> <<>>, lastname |-> <<>>, country_id |-> "us"],
       items |-> << [sku |-> "s1", qty_ordered |-> 1, price |-> 10] >>] }

InitOrder ==
    /\ InitClients
    /\ products \in Prefixes(BaseProducts, MaxProducts)
    /\ partners \in Prefixes(BasePartners, 2)
    /\ sale_orders \in Prefixes(BaseSaleOrders, MaxSaleOrders)
    /\ mg_products = {}
    /\ mg_orders \in SeqUpTo(OrderPool \cup BillingVariants, MaxOrders)

NextOrder == SyncOrder \/ Connect

SpecOrder == InitOrder /\ [][NextOrder]_vars

\* sync_all_products is called: the listing
SyncAllStart ==
    /\ Idle
    /\ \E o \in get_all_products(Cur) :
        /\ CommitStep(o.st)
        /\ batch' = product_batch(o.ret)
    /\ result' = [op |-> "running"]
    /\ UNCHANGED <<threads, products, now, mg_products, mg_orders>>

\* one iteration of the loop of sync_all_products
SyncAllStep ==
    /\ batch.pc = "products"
    /\ batch.i <= Len(batch.items)
    /\ LET sku == batch.items[batch.i]
       IN  IF ~Truthy(sku)
           THEN /\ batch' = product_skip(batch)
                /\ calls' = <<>>
                /\ UNCHANGED <<partners, sale_orders, connected, odoo, token,
                               token_expiry>>
           ELSE \E o \in sync_product(Cur, sku) :
                /\ CommitStep(o.st)
                /\ batch' = product_tally(batch, sku, o.ret.success)
    /\ UNCHANGED <<threads, products, now, mg_products, mg_orders, result>>

\* sync_all_products returns
SyncAllFinish ==
    /\ batch.pc = "products"
    /\ batch.i > Len(batch.items)
    /\ result' = [op |-> "sync_all_products", listing |-> batch.items, trace |-> batch.trace,
                  ret |-> [success |-> TRUE, results |-> batch.results]]
    /\ batch' = [pc |-> "idle"]
    /\ UNCHANGED <<threads, products, partners, sale_orders, connected, odoo, token,
                   token_expiry, now, mg_products, mg_orders, calls>>

\* sync_new_orders is called: the listing, which raises or is iterated
SyncNewStart ==
    /\ Idle
    /\ Len(partners) + Len(mg_orders) <= MaxPartners + 1
    /\ Len(sale_orders) + Len(mg_orders) <= MaxSaleOrders + 1
    /\ \E o \in get_new_orders(Cur) :
        /\ CommitStep(o.st)
        /\ IF o.ret.raised
           THEN /\ result' = [op |-> "sync_new_orders", listing |-> <<>>, trace |-> <<>>,
                              ret |-> [success |-> FALSE, orders_synced |-> <<>>]]
                /\ UNCHANGED batch
           ELSE /\ result' = [op |-> "running"]
                /\ batch' = order_batch(o.ret.orders)
    /\ UNCHANGED <<threads, products, now, mg_products, mg_orders>>

\* one iteration of the loop of sync_new_orders
SyncNewStep ==
    /\ batch.pc = "orders"
    /\ batch.i <= Len(batch.items)
    /\ LET order_id == batch.items[batch.i]
       IN  IF ~Truthy(order_id)
           THEN /\ batch' = order_skip(batch)
                /\ calls' = <<>>
                /\ UNCHANGED <<partners, sale_orders, connected, odoo, token,
                               token_expiry>>
           ELSE \E o \in sync_order(Cur, order_id) :
                /\ CommitStep(o.st)
                /\ batch' = order_tally(batch, order_id, o.ret.success)
    /\ UNCHANGED <<threads, products, now, mg_products, mg_orders, result>>

\* sync_new_orders returns
SyncNewFinish ==
    /\ batch.pc = "orders"
    /\ batch.i > Len(batch.items)
    /\ result' = [op |-> "sync_new_orders", listing |-> batch.items, trace |-> batch.trace,
                  ret |-> [success |-> TRUE, orders_synced |-> batch.results.synced_orders,
                           results |-> batch.results]]
    /\ batch' = [pc |-> "idle"]
    /\ UNCHANGED <<threads, products, partners, sale_orders, connected, odoo, token,
                   token_expiry, now, mg_products, mg_orders, calls>>

\* a catalogue to synchronize, or storefront orders to bring in
InitBatch ==
    /\ InitClients
    /\ sale_orders = <<>>
    /\ \/ /\ products \in SeqUpTo(ProductPool, MaxProducts)
          /\ mg_products \in SUBSET Skus
          /\ partners = <<>>
          /\ mg_orders = <<>>
       \/ /\ products \in Prefixes(BaseProducts, MaxProducts)
          /\ mg_products = {}
          /\ partners \in Prefixes(BasePartners, 2)
          /\ mg_orders \in SeqUpTo(OrderPool, MaxOrders)

BatchStep == SyncAllStep \/ SyncAllFinish \/ SyncNewStep \/ SyncNewFinish

NextBatch == SyncAllStart \/ SyncNewStart \/ BatchStep \/ Tick

\* a batch that was started keeps running: every remote call returns or raises
SpecBatch == InitBatch /\ [][NextBatch]_vars /\ WF_vars(BatchStep)

----------------------------------------------------------------------------
(* MagentoClient on its own: one client, called again and again *)

\* a credential exchange of this log succeeded
Exchanged(log) ==
    \E i \in 1..Len(log) :
        log[i].layer = "remote" /\ log[i].target = "token" /\ log[i].ok

\* when the last credential exchange succeeded (-1: never), before this
\* operation and after an operation with this log
IssuedBefore == IF result.op = "none" THEN -1 ELSE result.issued

IssuedAfter(log) == IF Exchanged(log) THEN now ELSE IssuedBefore

\* what an operation of the client leaves in `result` besides its own
\* fields: the time of the call and what was cached then
Cached ==
    [at |-> now, token |-> token, token_expiry |-> token_expiry, issued |-> IssuedBefore]

\* MagentoClient._get_token()
GetToken ==
    /\ Idle
    /\ \E o \in get_token(Cur) :
        /\ Commit(o.st)
        /\ result' = [op |-> "get_token", arg |-> "", ret |-> o.ret, before |-> Cached,
                      issued |-> IssuedAfter(o.st.calls)]
    /\ UNCHANGED <<threads, products, now, mg_products, mg_orders, batch>>

\* MagentoClient.get_order_by_id(order_id)
GetOrderById ==
    /\ Idle
    /\ \E id \in OrderIds : \E o \in get_order_by_id(Cur, id) :
        /\ Commit(o.st)
        /\ result' = [op |-> "get_order_by_id", arg |-> id, ret |-> o.ret, before |-> Cached,
                      issued |-> IssuedAfter(o.st.calls)]
    /\ UNCHANGED <<threads, products, now, mg_products, mg_orders, batch>>

\* MagentoClient.get_new_orders()
GetNewOrders ==
    /\ Idle
    /\ \E o \in get_new_orders(Cur) :
        /\ Commit(o.st)
        /\ result' = [op |-> "get_new_orders", arg |-> "", ret |-> o.ret, before |-> Cached,
                      issued |-> IssuedAfter(o.st.calls)]
    /\ UNCHANGED <<threads, products, now, mg_products, mg_orders, batch>>

\* a storefront with one order more in status pending than a page holds
PageOverflow ==
    [i \in 1..(default_page_size + 1) |->
        [entity_id |-> "p" \o ToString(i), status |-> "pending", customer_email |-> "a@x",
         billing_address |-> [firstname |-> <<"A">>, lastname |-> <<"B">>, country_id |-> "us"],
         items |-> << [sku |-> "s1", qty_ordered |-> 1, price |-> 10] >>]]

InitMagento ==
    /\ InitClients
    /\ products = <<>>
    /\ partners = <<>>
    /\ sale_orders = <<>>
    /\ mg_products = {}
    /\ mg_orders \in SeqUpTo(OrderPool, MaxOrders) \cup {PageOverflow}

NextMagento == GetToken \/ GetOrderById \/ GetNewOrders \/ Tick

SpecMagento == InitMagento /\ [][NextMagento]_vars

----------------------------------------------------------------------------
(* OdooClient on its own: one client, called again and again *)

\* the recorded state of the connection when an operation is called
Recorded == [connected |-> connected, odoo |-> odoo]

\* OdooClient.connect(), at any time
OdooConnect ==
    /\ Idle
    /\ \E o \in connect(Cur) :
        /\ Commit(o.st)
        /\ result' = [op |-> "connect", arg |-> "", ret |-> o.ret, before |-> Recorded]
    /\ UNCHANGED <<threads, products, now, mg_products, mg_orders, batch>>

\* OdooClient.get_product_by_sku(sku)
OdooGetProductBySku ==
    /\ Idle
    /\ \E sku \in Skus : \E o \in odoo_get_product_by_sku(Cur, sku) :
        /\ Commit(o.st)
        /\ result' = [op |-> "get_product_by_sku", arg |-> sku, ret |-> o.ret # None,
                      before |-> Recorded]
    /\ UNCHANGED <<threads, products, now, mg_products, mg_orders, batch>>

\* OdooClient.get_all_products()
OdooGetAllProducts ==
    /\ Idle
    /\ \E o \in get_all_products(Cur) :
        /\ Commit(o.st)
        /\ result' = [op |-> "get_all_products", arg |-> "", ret |-> o.ret # <<>>,
                      before |-> Recorded]
    /\ UNCHANGED <<threads, products, now, mg_products, mg_orders, batch>>

\* OdooClient._get_country_id(country_code)
OdooGetCountryId ==
    /\ Idle
    /\ \E code \in CountryCodes : \E o \in get_country_id(Cur, code) :
        /\ Commit(o.st)
        /\ result' = [op |-> "_get_country_id", arg |-> code, ret |-> o.ret # None,
                      before |-> Recorded]
    /\ UNCHANGED <<threads, products, now, mg_products, mg_orders, batch>>

\* the items of an order: one that resolves, one that does not, another
\* that resolves
BaseLines ==
    << [sku |-> "s1", quantity |-> 2, price_unit |-> 10],
       [sku |-> "zz", quantity |-> 3, price_unit |-> 7],
       [sku |-> "s2", quantity |-> 1, price_unit |-> 5] >>

\* OdooClient.create_sale_order(...), while the tables have room
OdooCreateSaleOrder ==
    /\ Idle
    /\ Len(partners) < MaxPartners
    /\ Len(sale_orders) < MaxSaleOrders
    /\ \E cd \in { c \in Customers : c.country_code = "us" },
          lines \in Prefixes(BaseLines, MaxLines), ext \in OrderIds :
        \E o \in create_sale_order(Cur, cd, lines, ext) :
            /\ Commit(o.st)
            /\ result' = [op |-> "create_sale_order", arg |-> ext, ret |-> o.ret # None,
                          before |-> Recorded]
    /\ UNCHANGED <<threads, products, now, mg_products, mg_orders, batch>>

InitOdoo ==
    /\ InitClients
    /\ products \in Prefixes(BaseProducts, MaxProducts)
    /\ partners \in Prefixes(BasePartners, MaxPartners)
    /\ sale_orders = <<>>
    /\ mg_products = {}
    /\ mg_orders = <<>>

NextOdoo ==
    \/ OdooConnect
    \/ OdooGetProductBySku
    \/ OdooGetAllProducts
    \/ OdooGetCountryId
    \/ OdooCreateSaleOrder

SpecOdoo == InitOdoo /\ [][NextOdoo]_vars

----------------------------------------------------------------------------
(* _get_token step by step: two invocations on one shared MagentoClient.    *)
(* Nothing in _get_token serializes them, so that the steps of one may fall *)
(* between any two steps of the other.                                      *)

\* the token the server issues to an invocation
TokenOf(t) == "token/" \o t

\* mutant: the cached token is never taken for fresh
not_expired_never(current_time, expiry) == FALSE

\* `current_time < self.token_expiry`
not_expired(current_time, expiry) == current_time < expiry

InFlight(t) == threads[t].pc \notin {"idle", "done"}

\* lines 36 and 39: the time is read, then `self.token` is tested
TokenCheck ==
    /\ result.op = "race"
    /\ \E t \in Threads :
        /\ threads[t].pc = "idle"
        /\ threads' = [threads EXCEPT ![t].current_time = now,
                          ![t].pc = IF token # NoneStr THEN "compare" ELSE "post"]
        /\ result' = [result EXCEPT
                          !.overlapped = @ \/ \E u \in Threads \ {t} : InFlight(u),
                          !.order = Append(@, t)]
    /\ UNCHANGED <<products, partners, sale_orders, connected, odoo, token, token_expiry,
                   now, mg_products, mg_orders, calls, batch>>

\* line 39, second operand: `current_time < self.token_expiry`
TokenCompare ==
    /\ \E t \in Threads :
        /\ threads[t].pc = "compare"
        /\ threads' = [threads EXCEPT
                          ![t].pc = IF not_expired(threads[t].current_time, token_expiry)
                                    THEN "return" ELSE "post"]
    /\ UNCHANGED <<products, partners, sale_orders, connected, odoo, token, token_expiry,
                   now, mg_products, mg_orders, calls, result, batch>>

\* lines 40 and 56: `return self.token`, which reads the field again
TokenReturn ==
    /\ \E t \in Threads :
        /\ threads[t].pc = "return"
        /\ threads' = [threads EXCEPT ![t].pc = "done", ![t].ret = token]
    /\ UNCHANGED <<products, partners, sale_orders, connected, odoo, token, token_expiry,
                   now, mg_products, mg_orders, calls, result, batch>>

\* lines 50-51: the credential exchange, which succeeds or raises
TokenPost ==
    /\ \E t \in Threads : \E ok \in BOOLEAN :
        /\ threads[t].pc = "post"
        /\ calls' = Append(calls, Remote("magento", "POST", "token", t, ok))
        /\ threads' = [threads EXCEPT
                          ![t].pc = IF ok THEN "store" ELSE "clear",
                          ![t].response = IF ok THEN TokenOf(t) ELSE NoneStr]
    /\ UNCHANGED <<products, partners, sale_orders, connected, odoo, token, token_expiry,
                   now, mg_products, mg_orders, result, batch>>

\* line 53: self.token = response.json()
TokenStore ==
    /\ \E t \in Threads :
        /\ threads[t].pc = "store"
        /\ token' = threads[t].response
        /\ threads' = [threads EXCEPT ![t].pc = "expiry"]
        /\ result' = [result EXCEPT !.token_writes = Append(@, t)]
    /\ UNCHANGED <<products, partners, sale_orders, connected, odoo, token_expiry,
                   now, mg_products, mg_orders, calls, batch>>

\* line 54: self.token_expiry = current_time + self.token_lifetime
TokenStoreExpiry ==
    /\ \E t \in Threads :
        /\ threads[t].pc = "expiry"
        /\ token_expiry' = threads[t].current_time + token_lifetime
        /\ threads' = [threads EXCEPT ![t].pc = "return"]
        /\ result' = [result EXCEPT !.expiry_writes = Append(@, t)]
    /\ UNCHANGED <<products, partners, sale_orders, connected, odoo, token,
                   now, mg_products, mg_orders, calls, batch>>

\* lines 59-60: self.token = None; return None
TokenClear ==
    /\ \E t \in Threads :
        /\ threads[t].pc = "clear"
        /\ token' = NoneStr
        /\ threads' = [threads EXCEPT ![t].pc = "done", ![t].ret = NoneStr]
        /\ result' = [result EXCEPT !.token_writes = Append(@, t)]
    /\ UNCHANGED <<products, partners, sale_orders, connected, odoo, token_expiry,
                   now, mg_products, mg_orders, calls, batch>>

\* a client without token, with an expired one or with a valid one; the
\* history keeps the order of the checks and of the writes, and whether an
\* invocation began while the other was in flight
InitRace ==
    /\ connected = FALSE
    /\ odoo = NoneStr
    /\ products = <<>>
    /\ partners = <<>>
    /\ sale_orders = <<>>
    /\ mg_products = {}
    /\ mg_orders = <<>>
    /\ now = 0
    /\ \/ token = NoneStr /\ token_expiry = 0
       \/ token = TheToken /\ token_expiry = 0
       \/ token = TheToken /\ token_expiry = token_lifetime
    /\ calls = <<>>
    /\ batch = [pc |-> "idle"]
    /\ threads = [t \in Threads |-> NotCalled]
    /\ result = [op |-> "race", overlapped |-> FALSE, order |-> <<>>,
                 token_writes |-> <<>>, expiry_writes |-> <<>>,
                 initial |-> [token |-> token, token_expiry |-> token_expiry]]

NextRace ==
    \/ TokenCheck
    \/ TokenCompare
    \/ TokenReturn
    \/ TokenPost
    \/ TokenStore
    \/ TokenStoreExpiry
    \/ TokenClear
    \/ Tick

SpecRace == InitRace /\ [][NextRace]_vars

----------------------------------------------------------------------------
(* One OrderSynchronizer called again and again: sync_order and            *)
(* sync_new_orders in any sequence, the storefront orders staying listed.  *)
(* `result` keeps, besides the last return, the sync_order calls that have  *)
(* returned (order id and success, in order) and the ERP tables as they     *)
(* were before the first call.                                              *)

\* the sync_order calls that returned before the batch in progress, if any
History == result.history

\* sync_order(order_id), called directly
SyncOrderAgain ==
    /\ Idle
    /\ Len(History) < MaxSyncs
    /\ \E id \in OrderIds : \E o \in sync_order(Cur, id) :
        /\ Commit(o.st)
        /\ result' = [result EXCEPT
                          !.op = "sync_order", !.arg = id, !.ret = o.ret,
                          !.history = Append(@, [arg |-> id, success |-> o.ret.success])]
    /\ UNCHANGED <<threads, products, now, mg_products, mg_orders, batch>>

\* sync_new_orders is called: the listing, which raises or is iterated
SyncNewAgainStart ==
    /\ Idle
    /\ Len(History) + Len(mg_orders) <= MaxSyncs
    /\ \E o \in get_new_orders(Cur) :
        /\ CommitStep(o.st)
        /\ IF o.ret.raised
           THEN /\ result' = [result EXCEPT
                                 !.op = "sync_new_orders", !.arg = "",
                                 !.ret = [success |-> FALSE, orders_synced |-> <<>>]]
                /\ UNCHANGED batch
           ELSE /\ result' = [result EXCEPT !.op = "running", !.arg = "", !.ret = <<>>]
                /\ batch' = order_batch(o.ret.orders)
    /\ UNCHANGED <<threads, products, now, mg_products, mg_orders>>

\* one iteration of the loop of sync_new_orders
SyncNewAgainStep ==
    /\ result.op = "running"
    /\ batch.pc = "orders"
    /\ batch.i <= Len(batch.items)
    /\ LET order_id == batch.items[batch.i]
       IN  IF ~Truthy(order_id)
           THEN /\ batch' = order_skip(batch)
                /\ calls' = <<>>
                /\ UNCHANGED <<partners, sale_orders, connected, odoo, token,
                               token_expiry>>
           ELSE \E o \in sync_order(Cur, order_id) :
                /\ CommitStep(o.st)
                /\ batch' = order_tally(batch, order_id, o.ret.success)
    /\ UNCHANGED <<threads, products, now, mg_products, mg_orders, result>>

\* sync_new_orders returns
SyncNewAgainFinish ==
    /\ result.op = "running"
    /\ batch.pc = "orders"
    /\ batch.i > Len(batch.items)
    /\ result' = [result EXCEPT
                      !.op = "sync_new_orders", !.arg = "",
                      !.ret = [success |-> TRUE,
                               orders_synced |-> batch.results.synced_orders,
                               results |-> batch.results],
                      !.history = @ \o batch.trace]
    /\ batch' = [pc |-> "idle"]
    /\ UNCHANGED <<threads, products, partners, sale_orders, connected, odoo, token,
                   token_expiry, now, mg_products, mg_orders, calls>>

\* the storefront's listing: two orders of different customers whose lines
\* resolve if the ERP has the product, and an order without entity_id
ListedOrders ==
    << CHOOSE o \in OrderPool : o.entity_id = "o1",
       CHOOSE o \in BillingVariants : o.entity_id = "o2",
       CHOOSE o \in OrderPool : o.entity_id = "" >>

\* an ERP that may hold partners and a sale order already, one of them with
\* the reference of a storefront order, and the storefront's orders
InitAgain ==
    /\ connected = FALSE
    /\ odoo = NoneStr
    /\ token = NoneStr
    /\ token_expiry = 0
    /\ now = 0
    /\ calls = <<>>
    /\ batch = [pc |-> "idle"]
    /\ threads = [t \in Threads |-> NotCalled]
    /\ products \in Prefixes(BaseProducts, MaxProducts)
    /\ partners \in Prefixes(BasePartners, 2)
    /\ sale_orders \in Prefixes(BaseSaleOrders, MaxSaleOrders)
    /\ mg_products = {}
    /\ mg_orders \in Prefixes(ListedOrders, MaxOrders)
    /\ result = [op |-> "began", arg |-> "", ret |-> <<>>, history |-> <<>>,
                 initial |-> [partners |-> partners, sale_orders |-> sale_orders]]

NextAgain ==
    \/ SyncOrderAgain
    \/ SyncNewAgainStart
    \/ SyncNewAgainStep
    \/ SyncNewAgainFinish

SpecAgain == InitAgain /\ [][NextAgain]_vars

----------------------------------------------------------------------------
(* Reading the history of the last operation *)

IsSyncProduct == result.op = "sync_product"

\* the client methods of system sys that were called, in order
ClientCalls(sys) == SelectSeq(calls, LAMBDA e : e.layer = "client" /\ e.sys = sys)

\* the requests sent to system sys, in order
RemoteCalls(sys) == SelectSeq(calls, LAMBDA e : e.layer = "remote" /\ e.sys = sys)

OpsOf(s) == [i \in 1..Len(s) |-> s[i].op]

\* client method op of system sys was called and returned a value of truthiness ok
Called(sys, op, ok) ==
    \E i \in 1..Len(calls) :
        /\ calls[i].layer = "client"
        /\ calls[i].sys = sys
        /\ calls[i].op = op
        /\ calls[i].ok = ok

Attempted(op) == Called("magento", op, TRUE) \/ Called("magento", op, FALSE)

UpdateOps == {"update_product_stock", "update_product_price", "update_product_special_price"}

BothLookupsSucceeded ==
    /\ IsSyncProduct
    /\ Called("odoo", "get_product_by_sku", TRUE)
    /\ Called("magento", "get_product_by_sku", TRUE)

\* the ERP product sync_product(result.arg) works on: the first match
SyncedProduct == products[search_product(result.arg)[1]]

----------------------------------------------------------------------------
(* Claims about sync_product *)

\* C1: when the ERP lookup returns no product, sync_product returns
\* success=False with the "not found in Odoo" message and the input sku, and
\* makes no call at all to the storefront client: no client method is
\* called and no request (not even a token exchange) is sent.
C1_NotInSourceNoDestinationCall ==
    (IsSyncProduct /\ Called("odoo", "get_product_by_sku", FALSE)) =>
        /\ result.ret.success = FALSE
        /\ result.ret.message = Message("not found in Odoo", <<>>)
        /\ result.ret.sku = result.arg
        /\ \A i \in 1..Len(calls) : calls[i].sys # "magento"

\* the sku is in the storefront but not in the ERP, whose search succeeded
C1_Witness ==
    /\ IsSyncProduct
    /\ Called("odoo", "get_product_by_sku", FALSE)
    /\ search_product(result.arg) = <<>>
    /\ result.arg \in mg_products
    /\ \E i \in 1..Len(calls) : calls[i].op = "search" /\ calls[i].ok

\* C2: when the ERP has the product and the storefront lookup returns
\* none, sync_product returns success=False with the "not found in
\* Magento" message and makes none of the three update calls.
C2_NotInDestinationNoUpdate ==
    (/\ IsSyncProduct
     /\ Called("odoo", "get_product_by_sku", TRUE)
     /\ Called("magento", "get_product_by_sku", FALSE)) =>
        /\ result.ret.success = FALSE
        /\ result.ret.message = Message("not found in Magento", <<>>)
        /\ result.ret.sku = result.arg
        /\ \A op \in UpdateOps : ~Attempted(op)
        /\ \A i \in 1..Len(calls) : calls[i].op # "PUT"

\* the sku is in the ERP, not in the storefront, and the storefront was asked
C2_Witness ==
    /\ IsSyncProduct
    /\ Called("odoo", "get_product_by_sku", TRUE)
    /\ Called("magento", "get_product_by_sku", FALSE)
    /\ result.arg \notin mg_products
    /\ \E i \in 1..Len(calls) : calls[i].op = "GET" /\ ~calls[i].ok

\* C3: when both lookups succeed, the storefront client is called for the
\* stock update, then the price update, then (at most) the special-price
\* update, each whatever the earlier ones returned; and the requests that
\* reach the storefront keep that order.
C3_UpdatesInOrderAllAttempted ==
    BothLookupsSucceeded =>
        /\ OpsOf(ClientCalls("magento")) \in
              { <<"get_product_by_sku", "update_product_stock", "update_product_price">>,
                <<"get_product_by_sku", "update_product_stock", "update_product_price",
                  "update_product_special_price">> }
        /\ special_price_applies(product_dict(search_product(result.arg)[1]))
              => Attempted("update_product_special_price")
        /\ \A i, j \in 1..Len(calls) :
              (/\ i < j
               /\ calls[i].op = "PUT"
               /\ calls[j].op = "PUT") =>
                  <<calls[i].target, calls[j].target>> \in
                      { <<"stock", "price">>, <<"stock", "special_price">>,
                        <<"price", "special_price">> }

\* a partial application: the stock update failed, the later two were made
\* and succeeded
C3_Witness ==
    /\ BothLookupsSucceeded
    /\ Called("magento", "update_product_stock", FALSE)
    /\ Called("magento", "update_product_price", TRUE)
    /\ Called("magento", "update_product_special_price", TRUE)

\* C4: the special-price update is attempted only when the promo price is
\* set and strictly below the retail price (it is for promo 8 / retail 10,
\* it is not for promo 12 / retail 10 nor for promo = retail); when it is
\* not attempted, success is decided by the stock and price updates alone.
C4_SpecialPriceOnlyBelowRetail ==
    IsSyncProduct =>
        /\ Attempted("update_product_special_price") =>
              /\ SyncedProduct.lst_price # None
              /\ SyncedProduct.lst_price[1] < SyncedProduct.list_price
        /\ (BothLookupsSucceeded /\ SyncedProduct.lst_price = Some(8)
                /\ SyncedProduct.list_price = 10)
              => Attempted("update_product_special_price")
        /\ (BothLookupsSucceeded /\ ~Attempted("update_product_special_price")) =>
              (result.ret.success <=>
                  (/\ Called("magento", "update_product_stock", TRUE)
                   /\ Called("magento", "update_product_price", TRUE)))

\* promo = retail: no special-price update, and the sync succeeds
C4_Witness ==
    /\ BothLookupsSucceeded
    /\ SyncedProduct.lst_price = Some(SyncedProduct.list_price)
    /\ ~Attempted("update_product_special_price")
    /\ result.ret.success

\* the operations, in reporting order, that were attempted and failed
FailedUpdates ==
    (IF Called("magento", "update_product_stock", FALSE) THEN <<"stock update">> ELSE <<>>)
    \o (IF Called("magento", "update_product_price", FALSE) THEN <<"price update">> ELSE <<>>)
    \o (IF Called("magento", "update_product_special_price", FALSE)
        THEN <<"special price update">> ELSE <<>>)

\* C5: once both lookups succeed, success=True iff every attempted update
\* returned success; otherwise the one message names exactly the failed
\* operations, in the order stock, price, special price.  The result's sku
\* is always the input sku.
C5_SuccessIffAllUpdatesSucceed ==
    IsSyncProduct =>
        /\ result.ret.sku = result.arg
        /\ BothLookupsSucceeded =>
              /\ result.ret.success <=> (FailedUpdates = <<>>)
              /\ result.ret.success =>
                    result.ret.message = Message("synchronized successfully", <<>>)
              /\ ~result.ret.success =>
                    result.ret.message = Message("synchronization failed for", FailedUpdates)

\* the price and special-price updates failed, the stock update did not
C5_Witness ==
    /\ BothLookupsSucceeded
    /\ ~result.ret.success
    /\ result.ret.message.failed = <<"price update", "special price update">>

----------------------------------------------------------------------------
(* Claims about the batches *)

\* the arguments of the calls of a trace, and those of its failed calls
ArgsOf(trace) == [i \in 1..Len(trace) |-> trace[i].arg]

FailedArgsOf(trace) == ArgsOf(SelectSeq(trace, LAMBDA t : ~t.success))

\* the number of items of a listing without sku / entity_id
Empties(listing) == Cardinality({ i \in 1..Len(listing) : ~Truthy(listing[i]) })

\* C6: sync_all_products over a listing of N products, K of them without
\* sku, reports total = N, failed >= K and successful + failed = total;
\* sync_product is called for the products with a sku and for no other, and
\* failed_skus holds exactly the skus whose sync_product call returned
\* failure, so its length is failed - K.  While the loop runs, the items
\* before the current one are all tallied.
C6_SyncAllReport ==
    /\ batch.pc = "products" =>
          /\ batch.results.successful + batch.results.failed = batch.i - 1
          /\ batch.results.total = Len(batch.items)
    /\ result.op = "sync_all_products" =>
          LET r == result.ret.results
              N == Len(result.listing)
              K == Empties(result.listing)
          IN  /\ r.total = N
              /\ r.failed >= K
              /\ r.successful + r.failed = r.total
              /\ ArgsOf(result.trace) = SelectSeq(result.listing, Truthy)
              /\ r.failed_skus = FailedArgsOf(result.trace)
              /\ Len(r.failed_skus) = r.failed - K

\* two products, one without sku, the other failed to synchronize
C6_Witness ==
    /\ result.op = "sync_all_products"
    /\ Len(products) = 2
    /\ result.ret.results.total = 2
    /\ Empties(result.listing) = 1
    /\ result.ret.results.failed = 2
    /\ Len(result.ret.results.failed_skus) = 1

BatchRunning == batch.pc # "idle"

\* what holds of a batch that has returned
BatchReturned ==
    result.op \in {"sync_all_products", "sync_new_orders"} =>
        IF result.ret.success
        THEN ArgsOf(result.trace) = SelectSeq(result.listing, Truthy)
        ELSE /\ result.op = "sync_new_orders"
             /\ result.trace = <<>>
             /\ result.listing = <<>>

\* what holds of a step that ends a batch: no item is left and it reports success
BatchEndsComplete ==
    (BatchRunning /\ batch'.pc = "idle") =>
        /\ batch.i > Len(batch.items)
        /\ result'.ret.success
        /\ result'.trace = batch.trace
        /\ result'.listing = batch.items

\* what holds of a step of a running batch: the next item, and only it, is
\* passed on, whatever the outcome of the items before it
BatchStepsInOrder ==
    (BatchRunning /\ batch'.pc = batch.pc) =>
        /\ batch'.i = batch.i + 1 \/ (batch'.i = batch.i /\ batch' = batch)
        /\ batch'.items = batch.items
        /\ batch'.i = batch.i + 1 =>
              batch'.trace = IF Truthy(batch.items[batch.i])
                             THEN Append(batch.trace,
                                         [arg |-> batch.items[batch.i],
                                          success |-> batch'.trace[Len(batch'.trace)].success])
                             ELSE batch.trace

\* C7: a batch never aborts on the failure of an item: every listed item
\* with a sku / entity_id is passed to sync_product / sync_order exactly
\* once, in listing order, whatever the outcome of the others; the batch
\* terminates; it returns success=True; and it returns success=False only
\* when the listing itself failed, before any item was processed.
C7_BatchNeverAborts ==
    /\ []BatchReturned
    /\ [][BatchEndsComplete /\ BatchStepsInOrder]_vars
    /\ (BatchRunning ~> ~BatchRunning)

\* a sync_all_products that went on after its first product had failed
C7_Witness ==
    /\ result.op = "sync_all_products"
    /\ result.ret.success
    /\ Len(result.trace) = 2
    /\ ~result.trace[1].success
    /\ result.trace[2].success

----------------------------------------------------------------------------
(* Claims about create_sale_order *)

IsCreateSaleOrder == result.op = "create_sale_order"

\* a request of this kind was sent to the ERP (ok: it did not raise)
Sent(op, target, ok) ==
    \E i \in 1..Len(calls) :
        /\ calls[i].layer = "remote"
        /\ calls[i].sys = "odoo"
        /\ calls[i].op = op
        /\ calls[i].target = target
        /\ calls[i].ok = ok

Issued(op, target) == Sent(op, target, TRUE) \/ Sent(op, target, FALSE)

NumberSent(op, target) ==
    Cardinality({ i \in 1..Len(calls) :
        calls[i].layer = "remote" /\ calls[i].op = op /\ calls[i].target = target })

\* no request to the ERP raised and the connection was there
NothingRaised == \A i \in 1..Len(calls) : calls[i].layer = "remote" => calls[i].ok

\* the least id of an ERP product with this sku, which exists
FirstProduct(sku) ==
    CHOOSE i \in 1..Len(products) :
        /\ products[i].default_code = sku
        /\ \A j \in 1..(i - 1) : products[j].default_code # sku

Resolves(sku) == \E i \in 1..Len(products) : products[i].default_code = sku

AllUnresolvable(lines) == \A i \in 1..Len(lines) : ~Resolves(lines[i].sku)

\* the ids of the partners that had the e-mail when the call was made
Matches(email) ==
    { i \in 1..Len(result.before.partners) : result.before.partners[i].email = email }

\* C8 as stated: with order lines that all fail to resolve (or none at
\* all) create_sale_order returns None and sends no create call to the ERP,
\* whether or not a partner with the customer's e-mail exists.
C8_NoCreateAtAll ==
    (IsCreateSaleOrder /\ AllUnresolvable(result.order_lines)) =>
        /\ result.ret = None
        /\ \A i \in 1..Len(calls) : calls[i].op # "create"

\* What create_sale_order does in the case of C8: it returns None, sends
\* no create call for a sale order and leaves the sale orders as they
\* were; it does send a create call for a partner, before it looks at the
\* lines, exactly when the search for the customer's e-mail succeeded and
\* found no partner.
UnresolvableLinesLeavePartner ==
    (IsCreateSaleOrder /\ AllUnresolvable(result.order_lines)) =>
        /\ result.ret = None
        /\ ~Issued("create", "sale.order")
        /\ sale_orders = result.before.sale_orders
        /\ Issued("create", "res.partner") <=>
              (/\ Sent("search", "res.partner", TRUE)
               /\ Matches(result.customer_data.email) = {})
        /\ Sent("create", "res.partner", TRUE) =>
              Len(partners) = Len(result.before.partners) + 1

\* lines that do not resolve, an unknown e-mail: a partner is left behind
PartnerLeftBehind ==
    /\ IsCreateSaleOrder
    /\ result.order_lines # <<>>
    /\ AllUnresolvable(result.order_lines)
    /\ Sent("create", "res.partner", TRUE)
    /\ Len(partners) = Len(result.before.partners) + 1
    /\ result.ret = None

\* the lines create_sale_order is to make of the items: those whose sku
\* resolves, in their order
RECURSIVE ExpectedLines(_)
ExpectedLines(lines) ==
    IF lines = <<>> THEN <<>>
    ELSE IF Resolves(Head(lines).sku)
         THEN << [product_id |-> FirstProduct(Head(lines).sku),
                  product_uom_qty |-> Head(lines).quantity,
                  price_unit |-> Head(lines).price_unit] >> \o ExpectedLines(Tail(lines))
         ELSE ExpectedLines(Tail(lines))

ExpectedCountry(code) ==
    IF code \in {"us", "US"} /\ Sent("search", "res.country", TRUE)
    THEN Some(CHOOSE i \in 1..Len(countries) : countries[i] = "US")
    ELSE None

\* C10: when the search by e-mail succeeds and some partner has exactly
\* that e-mail, the first of them is the partner of the order and no
\* partner is created; when it finds none, exactly one partner create is
\* sent, with the customer's data and the country of the upper-cased code
\* (none for an absent or unknown code, which does not fail the call), and
\* the partner created is the partner of the order.
C10_PartnerLookupOrCreate ==
    IsCreateSaleOrder =>
        LET email == result.customer_data.email
            code == result.customer_data.country_code
            last == sale_orders[Len(sale_orders)]
        IN  /\ ~Sent("search", "res.partner", TRUE) =>
                  /\ ~Issued("create", "res.partner")
                  /\ partners = result.before.partners
                  /\ result.ret = None
            /\ (Sent("search", "res.partner", TRUE) /\ Matches(email) # {}) =>
                  /\ ~Issued("create", "res.partner")
                  /\ ~Issued("search", "res.country")
                  /\ partners = result.before.partners
                  /\ result.ret # None =>
                        /\ last.partner_id \in Matches(email)
                        /\ \A i \in Matches(email) : last.partner_id <= i
            /\ (Sent("search", "res.partner", TRUE) /\ Matches(email) = {}) =>
                  /\ NumberSent("create", "res.partner") = 1
                  /\ Sent("create", "res.partner", FALSE) =>
                        /\ partners = result.before.partners
                        /\ result.ret = None
                  /\ Sent("create", "res.partner", TRUE) =>
                        /\ partners = Append(result.before.partners,
                                             [name |-> result.customer_data.name,
                                              email |-> email,
                                              country_id |-> ExpectedCountry(code)])
                        /\ result.ret # None => last.partner_id = Len(partners)

\* a partner was created for a lower-case country code and got the country
C10_Witness ==
    /\ IsCreateSaleOrder
    /\ result.customer_data.country_code = "us"
    /\ Sent("create", "res.partner", TRUE)
    /\ partners[Len(partners)].country_id = Some(1)
    /\ result.ret # None

----------------------------------------------------------------------------
(* Claims about MagentoClient.get_new_orders *)

IsGetNewOrders == result.op = "get_new_orders"

\* the positions in the history of the listing requests for a status
OrdersRequests(status) ==
    { i \in 1..Len(calls) :
        calls[i].layer = "remote" /\ calls[i].target = "orders" /\ calls[i].arg = status }

\* the storefront orders in a status, in the storefront's order
RECURSIVE InStatus(_, _)
InStatus(orders, status) ==
    IF orders = <<>> THEN <<>>
    ELSE IF Head(orders).status = status
         THEN <<Head(orders)>> \o InStatus(Tail(orders), status)
         ELSE InStatus(Tail(orders), status)

\* what the query for a status is to contribute: the page the storefront
\* answered with, nothing if the query was not sent or failed
Contribution(status) ==
    IF \E i \in OrdersRequests(status) : calls[i].ok
    THEN SubSeq(InStatus(mg_orders, status), 1,
                IF Len(InStatus(mg_orders, status)) < default_page_size
                THEN Len(InStatus(mg_orders, status)) ELSE default_page_size)
    ELSE <<>>

PendingQueryFirst ==
    \A i \in OrdersRequests("pending") : \A j \in OrdersRequests("processing") : i < j

\* C11: get_new_orders sends the query for 'pending' before the query for
\* 'processing' and returns the items of the first answer followed by the
\* items of the second, as answered, nothing removed or moved; a query that
\* fails or brings no items contributes nothing and leaves the items of the
\* other query in the list returned.
C11_PendingThenProcessing ==
    IsGetNewOrders =>
        /\ PendingQueryFirst
        /\ ~result.ret.raised
        /\ result.ret.orders = Contribution("pending") \o Contribution("processing")

\* What get_new_orders does: the queries go out in that order, and whenever
\* it returns, it returns that list; it raises when a query is answered
\* with a 2xx without body.
NewOrdersWhenReturned ==
    IsGetNewOrders =>
        /\ PendingQueryFirst
        /\ ~result.ret.raised =>
              result.ret.orders = Contribution("pending") \o Contribution("processing")

\* the pending query failed and the processing orders were still returned
NewOrdersOfOneQuery ==
    /\ IsGetNewOrders
    /\ ~result.ret.raised
    /\ \E i \in OrdersRequests("pending") : ~calls[i].ok
    /\ InStatus(mg_orders, "pending") # <<>>
    /\ result.ret.orders # <<>>

\* a query was answered with a 2xx without body and get_new_orders raised
NewOrdersRaised ==
    /\ IsGetNewOrders
    /\ result.ret.raised
    /\ \A i \in 1..Len(calls) : calls[i].ok

\* the storefront orders that are new: in status pending or processing
NewInStorefront ==
    { i \in 1..Len(mg_orders) : mg_orders[i].status \in {"pending", "processing"} }

\* get_new_orders returned and both of its queries were answered
BothQueriesAnswered ==
    /\ IsGetNewOrders
    /\ ~result.ret.raised
    /\ \E i \in OrdersRequests("pending") : calls[i].ok
    /\ \E i \in OrdersRequests("processing") : calls[i].ok

\* C12: whatever the number of storefront orders in status pending or
\* processing, every one of them is in the list get_new_orders returns
\* (and so in the total that sync_new_orders reports, the length of that
\* list), once both queries are answered.
C12_EveryNewOrderListed ==
    BothQueriesAnswered =>
        /\ \A i \in NewInStorefront :
              \E j \in 1..Len(result.ret.orders) : result.ret.orders[j] = mg_orders[i]
        /\ Len(result.ret.orders) = Cardinality(NewInStorefront)

\* What get_new_orders does: it asks for one page of default_page_size
\* orders per status and for no further page, so it lists every new order
\* only when no status has more orders than a page.
NewOrdersOfOnePage ==
    BothQueriesAnswered =>
        /\ Cardinality(OrdersRequests("pending")) = 1
        /\ Cardinality(OrdersRequests("processing")) = 1
        /\ (/\ Len(InStatus(mg_orders, "pending")) <= default_page_size
            /\ Len(InStatus(mg_orders, "processing")) <= default_page_size)
           => Len(result.ret.orders) = Cardinality(NewInStorefront)
        /\ Len(InStatus(mg_orders, "pending")) > default_page_size
           => Len(result.ret.orders) < Cardinality(NewInStorefront)

\* more pending orders than a page holds, and the last of them is left out
NewOrderLeftOut ==
    /\ BothQueriesAnswered
    /\ Len(InStatus(mg_orders, "pending")) = default_page_size + 1
    /\ Len(result.ret.orders) = default_page_size

----------------------------------------------------------------------------
(* Claims about the token of MagentoClient *)

IsGetToken == result.op = "get_token"

\* the credential exchanges of the last operation
TokenExchanges ==
    { i \in 1..Len(calls) : calls[i].layer = "remote" /\ calls[i].target = "token" }

\* C13: after a credential exchange that succeeded at time t, a _get_token
\* call before t + token_lifetime returns the cached token and sends no
\* exchange, and a call at or after t + token_lifetime (or with no exchange
\* that ever succeeded) sends one; a token that has expired is never
\* returned.
C13_TokenReuse ==
    IsGetToken =>
        LET t == result.before.issued
            at == result.before.at
        IN  /\ (t >= 0 /\ at < t + token_lifetime) =>
                  /\ TokenExchanges = {}
                  /\ result.ret = TheToken
            /\ (t < 0 \/ at >= t + token_lifetime) =>
                  Cardinality(TokenExchanges) = 1
            /\ result.ret # NoneStr =>
                  /\ result.issued >= 0
                  /\ at < result.issued + token_lifetime

\* a second call, later but within the lifetime of the token, sent nothing
C13_Witness ==
    /\ IsGetToken
    /\ result.before.issued = 0
    /\ result.before.at > 0
    /\ result.before.at < token_lifetime
    /\ TokenExchanges = {}
    /\ result.ret = TheToken

\* a call at the instant of expiry sent a second exchange
TokenRenewedAtExpiry ==
    /\ IsGetToken
    /\ result.before.issued = 0
    /\ result.before.at = token_lifetime
    /\ Cardinality(TokenExchanges) = 1

\* a credential exchange of the last operation failed / none succeeded
ExchangeFailed == \E i \in TokenExchanges : ~calls[i].ok

NoTokenObtained == TokenExchanges # {} /\ \A i \in TokenExchanges : ~calls[i].ok

\* the requests of the last operation for a resource (not for a token)
ResourceRequests ==
    { i \in 1..Len(calls) :
        calls[i].layer = "remote" /\ calls[i].sys = "magento" /\ calls[i].target # "token" }

\* What the code does when a credential exchange fails: _get_token clears
\* the token and returns None, the next call sends a new exchange, and
\* _make_api_request sends no request for the resource and returns None.
TokenFailureStopsRequest ==
    /\ (IsGetToken /\ ExchangeFailed) => (token = NoneStr /\ result.ret = NoneStr)
    /\ (IsGetToken /\ result.before.token = NoneStr) => TokenExchanges # {}
    /\ (result.op = "get_order_by_id" /\ ExchangeFailed) =>
          (ResourceRequests = {} /\ result.ret = ApiNone)
    /\ (IsGetNewOrders /\ NoTokenObtained) => ResourceRequests = {}

\* C14: when a credential exchange fails, _get_token clears the cached
\* token and returns None and the next call sends a new exchange;
\* _make_api_request without a token sends no request for the resource and
\* returns None; and get_new_orders, which then cannot proceed, does not
\* return an empty listing as if the storefront had no new orders.
C14_MissingTokenIsNotEmptyListing ==
    /\ TokenFailureStopsRequest
    /\ (IsGetNewOrders /\ NoTokenObtained) =>
          ~(~result.ret.raised /\ result.ret.orders = <<>>)

\* no token could be obtained, the storefront has new orders, and
\* get_new_orders returned the empty list
AuthFailureListedAsEmpty ==
    /\ IsGetNewOrders
    /\ NoTokenObtained
    /\ NewInStorefront # {}
    /\ ~result.ret.raised
    /\ result.ret.orders = <<>>

----------------------------------------------------------------------------
(* Claims about the propagation of failures *)

\* C15: no exception crosses the boundary of a client: every public
\* operation returns a value whatever the remote calls under it do - the
\* token or None for _get_token, the answer or None for get_order_by_id, a
\* list for get_new_orders - and never raises.
C15_NoExceptionCrossesBoundary ==
    /\ IsGetToken => result.ret \in {TheToken, NoneStr}
    /\ result.op = "get_order_by_id" => result.ret.kind \in {"none", "true", "json"}
    /\ IsGetNewOrders => ~result.ret.raised

\* What the code does: get_new_orders raises exactly when one of its
\* queries is answered with a 2xx without body, and it raises after both
\* queries were sent.
NewOrdersRaiseUncaught ==
    (IsGetNewOrders /\ result.ret.raised) =>
        /\ \E i \in ResourceRequests : calls[i].ok
        /\ result.ret.orders = <<>>

----------------------------------------------------------------------------
(* Claims about the connection of OdooClient *)

ErpOperations ==
    {"get_product_by_sku", "get_all_products", "create_sale_order", "_get_country_id"}

\* the connections attempted by the last operation: the ODOO() constructor
\* raised, or the login that followed it raised or succeeded
Connects ==
    { i \in 1..Len(calls) :
        calls[i].layer = "remote" /\ calls[i].sys = "odoo" /\ calls[i].target = "server" }

LoginSucceeded == \E i \in Connects : calls[i].op = "login" /\ calls[i].ok

\* search, browse and create requests of the last operation
TableRequests ==
    { i \in 1..Len(calls) :
        calls[i].layer = "remote" /\ calls[i].sys = "odoo" /\ calls[i].target # "server" }

\* C16: connect can be called at any time and leaves connected true iff
\* its login succeeded; an ERP operation connects first, and only then,
\* exactly when the recorded state is disconnected (connected false or no
\* session); when that connection fails the operation sends no search,
\* browse or create and returns None or an empty list.
C16_ConnectionHandling ==
    /\ result.op = "connect" =>
          /\ Cardinality(Connects) = 1
          /\ connected <=> LoginSucceeded
          /\ result.ret <=> LoginSucceeded
    /\ result.op \in ErpOperations =>
          LET disconnected == ~result.before.connected \/ result.before.odoo = NoneStr
          IN  /\ disconnected => Connects = {1}
              /\ ~disconnected => Connects = {}
              /\ (disconnected /\ ~LoginSucceeded) =>
                    /\ TableRequests = {}
                    /\ ~result.ret
                    /\ ~connected

\* an operation on a client that had lost its connection reconnected
\* first and then searched
C16_Witness ==
    /\ result.op \in ErpOperations
    /\ ~result.before.connected
    /\ result.before.odoo # NoneStr
    /\ Connects = {1}
    /\ LoginSucceeded
    /\ TableRequests # {}

\* an operation on a connected client sent its request without connecting
OperationOnConnectedClient ==
    /\ result.op = "create_sale_order"
    /\ result.before.connected
    /\ Connects = {}
    /\ result.ret

----------------------------------------------------------------------------
(* Claims about sync_new_orders *)

SucceededArgsOf(trace) == ArgsOf(SelectSeq(trace, LAMBDA t : t.success))

\* C17: sync_new_orders over a listing of N orders reports total = N and
\* successful + failed = total; sync_order is called for the orders with an
\* entity_id and for no other, the others count as failed; synced_orders,
\* returned as orders_synced too, holds exactly the ids whose sync_order
\* succeeded and failed_orders exactly the ids whose sync_order failed,
\* both in processing order, so successful is the length of synced_orders
\* and every processed item is in one list only.  While the loop runs,
\* the items before the current one are all tallied.
C17_SyncNewOrdersReport ==
    /\ batch.pc = "orders" =>
          /\ batch.results.successful + batch.results.failed = batch.i - 1
          /\ batch.results.total = Len(batch.items)
    /\ (result.op = "sync_new_orders" /\ result.ret.success) =>
          LET r == result.ret.results
              N == Len(result.listing)
              K == Empties(result.listing)
          IN  /\ r.total = N
              /\ r.successful + r.failed = r.total
              /\ ArgsOf(result.trace) = SelectSeq(result.listing, Truthy)
              /\ r.synced_orders = SucceededArgsOf(result.trace)
              /\ r.failed_orders = FailedArgsOf(result.trace)
              /\ result.ret.orders_synced = r.synced_orders
              /\ r.successful = Len(r.synced_orders)
              /\ r.failed = Len(r.failed_orders) + K
              /\ Len(r.synced_orders) + Len(r.failed_orders) = Len(result.trace)

\* two orders, the first brought in, the second failed
C17_Witness ==
    /\ result.op = "sync_new_orders"
    /\ result.ret.success
    /\ result.ret.results.total = 2
    /\ result.ret.results.synced_orders = <<"o1">>
    /\ result.ret.results.failed_orders = <<"o2">>

\* an order without entity_id counted as failed and not passed on
OrderWithoutIdCounted ==
    /\ result.op = "sync_new_orders"
    /\ result.ret.success
    /\ result.ret.results.total = 2
    /\ Empties(result.listing) = 1
    /\ Len(result.trace) = 1
    /\ result.ret.results.failed = 1
    /\ result.ret.results.failed_orders = <<>>

----------------------------------------------------------------------------
(* Claims about sync_order *)

IsSyncOrder == result.op = "sync_order"

\* the calls of create_sale_order made by the last operation
CreateSaleOrderCalls ==
    { i \in 1..Len(calls) :
        calls[i].layer = "client" /\ calls[i].op = "create_sale_order" }

\* the requests sent to the ERP by the last operation
ErpRequests ==
    { i \in 1..Len(calls) : calls[i].layer = "remote" /\ calls[i].sys = "odoo" }

\* the storefront answered the request for the order with a 2xx
OrderAnswered ==
    \E i \in 1..Len(calls) :
        calls[i].layer = "remote" /\ calls[i].target = "order" /\ calls[i].ok

\* the answer had no body, so that no order was returned
AnsweredWithoutOrder == result.ret.message.text = "Error synchronizing order"

\* C18: when the storefront returns no order for the id, sync_order returns
\* success=False with orders_synced empty and calls nothing of the ERP;
\* otherwise it calls create_sale_order exactly once, with the order id as
\* external_order_id, and returns success=True with orders_synced = [id] and
\* the new ERP identifier in its message iff create_sale_order returned an
\* identifier, and success=False with orders_synced empty and no ERP
\* identifier otherwise.
C18_SyncOrderResult ==
    IsSyncOrder =>
        LET ret == result.ret
            created == \E i \in CreateSaleOrderCalls : calls[i].ok
        IN  /\ (~OrderAnswered \/ AnsweredWithoutOrder) =>
                  /\ ~ret.success
                  /\ ret.orders_synced = <<>>
                  /\ CreateSaleOrderCalls = {}
                  /\ ErpRequests = {}
            /\ AnsweredWithoutOrder => OrderAnswered
            /\ (OrderAnswered /\ ~AnsweredWithoutOrder) =>
                  /\ Cardinality(CreateSaleOrderCalls) = 1
                  /\ \A i \in CreateSaleOrderCalls : calls[i].arg = result.arg
                  /\ ret.success <=> created
            /\ ret.success =>
                  /\ ret.orders_synced = <<result.arg>>
                  /\ ret.message.odoo_order_id = Some(Len(sale_orders))
                  /\ Len(sale_orders) = Len(result.before.sale_orders) + 1
                  /\ sale_orders[Len(sale_orders)].client_order_ref = result.arg
            /\ ~ret.success =>
                  /\ ret.orders_synced = <<>>
                  /\ ret.message.odoo_order_id = None
                  /\ sale_orders = result.before.sale_orders

\* an order was brought in and the message names the new sale order
C18_Witness ==
    /\ IsSyncOrder
    /\ result.ret.success
    /\ result.ret.orders_synced = <<"o1">>
    /\ result.ret.message.odoo_order_id = Some(Len(result.before.sale_orders) + 1)

\* the order was fetched, create_sale_order was called once and failed
OrderFetchedNotCreated ==
    /\ IsSyncOrder
    /\ OrderAnswered
    /\ Cardinality(CreateSaleOrderCalls) = 1
    /\ ~result.ret.success
    /\ result.ret.orders_synced = <<>>

\* the order the storefront returns for the id of the last sync_order: the
\* first one with that entity_id
FetchedOrder ==
    mg_orders[CHOOSE i \in 1..Len(mg_orders) :
                 /\ mg_orders[i].entity_id = result.arg
                 /\ \A j \in 1..(i - 1) : mg_orders[j].entity_id # result.arg]

\* sync_order made a partner of the customer of the order
PartnerCreated ==
    /\ IsSyncOrder
    /\ Len(partners) = Len(result.before.partners) + 1

NoBlank(cs) == \A i \in 1..Len(cs) : cs[i] # " "

\* name is full without the blanks at its two ends
TrimmedFrom(name, full) ==
    /\ name # <<>> => (name[1] # " " /\ name[Len(name)] # " ")
    /\ \E i \in 1..(Len(full) + 1) : \E j \in 0..Len(full) :
          /\ name = SubSeq(full, i, j)
          /\ \A k \in 1..(i - 1) : full[k] = " "
          /\ \A k \in (j + 1)..Len(full) : full[k] = " "

\* C19: the name sync_order derives for the customer is the first name, one
\* space and the last name of the billing address, without the blanks at
\* its ends: exactly "A B" for "A" and "B", and the part present alone,
\* with no blank before or after it, when the other part is empty or absent.
C19_CustomerName ==
    PartnerCreated =>
        LET firstname == FetchedOrder.billing_address.firstname
            lastname == FetchedOrder.billing_address.lastname
            name == partners[Len(partners)].name
        IN  /\ TrimmedFrom(name, firstname \o <<" ">> \o lastname)
            /\ (firstname = <<"A">> /\ lastname = <<"B">>) => name = <<"A", " ", "B">>
            /\ (firstname = <<>> /\ NoBlank(lastname)) => name = lastname
            /\ (lastname = <<>> /\ NoBlank(firstname)) => name = firstname

\* the billing address had no first name and the partner is named "B"
C19_Witness ==
    /\ PartnerCreated
    /\ FetchedOrder.billing_address.firstname = <<>>
    /\ FetchedOrder.billing_address.lastname = <<"B">>
    /\ partners[Len(partners)].name = <<"B">>

\* first and last name present and the partner is named "A B"
NamedFirstAndLast ==
    /\ PartnerCreated
    /\ FetchedOrder.billing_address.firstname = <<"A">>
    /\ FetchedOrder.billing_address.lastname = <<"B">>
    /\ partners[Len(partners)].name = <<"A", " ", "B">>

----------------------------------------------------------------------------
(* C20: two invocations of _get_token on one shared client *)

Done(t) == threads[t].pc = "done"

BothDone == \A t \in Threads : Done(t)

\* the credential exchanges issued, in order
RaceExchanges == SelectSeq(calls, LAMBDA e : e.layer = "remote" /\ e.target = "token")

\* the client began without a usable token
BeganWithoutToken ==
    \/ result.initial.token = NoneStr
    \/ result.initial.token_expiry <= 0

\* the invocations ran one after the other
Serialized == result.op = "race" /\ ~ result.overlapped

First == result.order[1]

Second == result.order[2]

Last(seq) == seq[Len(seq)]

\* C20 as stated, its serialized half: whenever the two invocations ran one
\* after the other on a client that began without a usable token, exactly
\* one credential exchange was issued.
C20_SerializedExactlyOneExchange ==
    (BothDone /\ Serialized /\ BeganWithoutToken) => Len(RaceExchanges) = 1

\* C20: on a client that began without a usable token every invocation that
\* finds no valid token issues its own exchange, so that between one and two
\* exchanges are issued, each by a different invocation; once both have
\* returned, the cached token is the one written last (the token issued to
\* that invocation, or none if its exchange failed) and the cached expiry is
\* the last one written (that invocation's own reading of the time plus the
\* lifetime); and when the invocations ran one after the other, a second
\* exchange was issued only if the first one failed or the second invocation
\* read the time at or after the expiry the first one stored.
C20_TokenRefreshRace ==
    (result.op = "race" /\ BothDone /\ BeganWithoutToken) =>
        /\ Len(RaceExchanges) \in 1..2
        /\ \A i, j \in 1..Len(RaceExchanges) :
               RaceExchanges[i].arg = RaceExchanges[j].arg => i = j
        /\ token = IF threads[Last(result.token_writes)].response = NoneStr
                   THEN NoneStr
                   ELSE TokenOf(Last(result.token_writes))
        /\ result.expiry_writes # <<>> =>
               token_expiry = threads[Last(result.expiry_writes)].current_time + token_lifetime
        /\ Serialized =>
               /\ RaceExchanges[1].arg = First
               /\ Len(RaceExchanges) = 2 =>
                      \/ ~ RaceExchanges[1].ok
                      \/ threads[Second].current_time >=
                             threads[First].current_time + token_lifetime

\* both invocations passed the check and both exchanged successfully, the
\* token left behind being that of one and the expiry that of the other
C20_Witness ==
    /\ result.op = "race"
    /\ BothDone
    /\ BeganWithoutToken
    /\ result.overlapped
    /\ Len(RaceExchanges) = 2
    /\ \A i \in 1..2 : RaceExchanges[i].ok
    /\ Last(result.token_writes) # Last(result.expiry_writes)

\* one after the other, the first exchange succeeding and the token still
\* fresh at the second invocation: one exchange, and both return that token
SerializedSingleExchange ==
    /\ BothDone
    /\ Serialized
    /\ BeganWithoutToken
    /\ Len(RaceExchanges) = 1
    /\ RaceExchanges[1].ok
    /\ \A t \in Threads : threads[t].ret = TokenOf(First)

\* one after the other, and yet two exchanges: the first one failed
SerializedSecondExchange ==
    /\ BothDone
    /\ Serialized
    /\ BeganWithoutToken
    /\ Len(RaceExchanges) = 2
    /\ ~ RaceExchanges[1].ok

\* an invocation whose exchange succeeded returns no token, the other one
\* having cleared the field before the return read it
ReturnedClearedToken ==
    \E t \in Threads :
        /\ Done(t)
        /\ threads[t].response # NoneStr
        /\ threads[t].ret = NoneStr

----------------------------------------------------------------------------
(* C21: order synchronization is not idempotent *)

\* the sync_order calls that have returned, direct ones and those of
\* sync_new_orders, in order
SyncOrderCalls == History \o (IF batch.pc = "orders" THEN batch.trace ELSE <<>>)

SucceededCalls == SelectSeq(SyncOrderCalls, LAMBDA c : c.success)

\* the sale orders and the partners the ERP has got since the first call
CreatedOrders ==
    SubSeq(sale_orders, Len(result.initial.sale_orders) + 1, Len(sale_orders))

CreatedPartners == (Len(result.initial.partners) + 1)..Len(partners)

\* the e-mail of the customer of the storefront order with this id
EmailOf(order_id) == (CHOOSE b \in order_bodies(order_id) : TRUE).customer_email

\* C21: after any sequence of sync_order and sync_new_orders calls, the
\* sale orders the ERP held before are untouched and the sale orders created
\* since are as many as the sync_order calls that succeeded, the j-th of
\* them carrying the order id of the j-th successful call as its
\* client_order_ref (so that k successful syncs of one id leave k sale
\* orders with that reference, whatever the ERP held); the sale orders of
\* one storefront order all have the same partner, which has the customer's
\* e-mail; no partner was created for an e-mail that a partner had already;
\* and no request to sale.order other than create is sent.
C21_NotIdempotent ==
    "history" \in DOMAIN result =>
        /\ SubSeq(sale_orders, 1, Len(result.initial.sale_orders)) = result.initial.sale_orders
        /\ Len(CreatedOrders) = Len(SucceededCalls)
        /\ \A j \in 1..Len(CreatedOrders) :
               /\ CreatedOrders[j].client_order_ref = SucceededCalls[j].arg
               /\ partners[CreatedOrders[j].partner_id].email = EmailOf(SucceededCalls[j].arg)
        /\ \A i, j \in 1..Len(CreatedOrders) :
               SucceededCalls[i].arg = SucceededCalls[j].arg =>
                   CreatedOrders[i].partner_id = CreatedOrders[j].partner_id
        /\ \A i \in CreatedPartners : \A j \in 1..(i - 1) :
               partners[j].email # partners[i].email
        /\ \A i \in 1..Len(calls) :
               calls[i].layer = "remote" /\ calls[i].target = "sale.order" =>
                   calls[i].op = "create"

\* the same order synchronized three times, the ERP holding a sale order
\* with its reference already: three more sale orders with that reference,
\* all of the one partner that the first call created
C21_Witness ==
    /\ "history" \in DOMAIN result
    /\ Len(SucceededCalls) = 3
    /\ \A j \in 1..3 : SucceededCalls[j].arg = "o1"
    /\ \E r \in Rows(result.initial.sale_orders) : r.client_order_ref = "o1"
    /\ Len(CreatedOrders) = 3
    /\ \A j \in 1..3 :
           /\ CreatedOrders[j].client_order_ref = "o1"
           /\ CreatedOrders[j].partner_id = Len(result.initial.partners) + 1
    /\ Len(partners) = Len(result.initial.partners) + 1

\* an order that was brought in and is still listed is brought in again by
\* sync_new_orders
ListedOrderBroughtInAgain ==
    /\ "history" \in DOMAIN result
    /\ result.op = "sync_new_orders"
    /\ Idle
    /\ mg_orders # <<>>
    /\ History = << [arg |-> "o1", success |-> TRUE], [arg |-> "o1", success |-> TRUE] >>
    /\ Len(CreatedOrders) = 2
    /\ \A j \in 1..2 : CreatedOrders[j].client_order_ref = "o1"

\* the orders of two customers brought in: a partner for each
TwoCustomersTwoPartners ==
    /\ "history" \in DOMAIN result
    /\ \E i, j \in 1..Len(CreatedOrders) :
           /\ SucceededCalls[i].arg = "o1"
           /\ SucceededCalls[j].arg = "o2"
           /\ CreatedOrders[i].partner_id # CreatedOrders[j].partner_id

\* a call that failed left no sale order, and the next one of the same
\* order made one
FailedThenSucceeded ==
    /\ "history" \in DOMAIN result
    /\ History = << [arg |-> "o1", success |-> FALSE], [arg |-> "o1", success |-> TRUE] >>
    /\ Len(CreatedOrders) = 1

====
